---- MODULE Spec2Model ----
(***************************************************************************)
(* A model of isatools.isatab: load (the ISA-Tab -> object graph           *)
(* assembler) and its nested builders.                                     *)
(*                                                                         *)
(* Representation.  A Python dict is a TLA+ function whose DOMAIN is the   *)
(* set of keys present, so d[k] raises KeyError exactly when               *)
(* k \notin DOMAIN d.  A dict that the code iterates over (nodes,          *)
(* process_nodes, node.metadata) is a sequence in iteration order with     *)
(* pairwise distinct keys.  A str that the code splits or tests by suffix  *)
(* is a sequence of its pieces (characters for the ';'-joined fields,      *)
(* words for a node's type tag, tokens for a column header).  None is the  *)
(* record [type |-> "None"]; every model object carries its class in       *)
(* the field type.                                                         *)
(***************************************************************************)
EXTENDS Integers, Sequences, FiniteSets, TLC

VARIABLES
    pc,             \* position of the running call
    isa_tab,        \* load: what isatab_parser.parse returned
    study_array,    \* load._createStudies: the studies built so far
    dicts,          \* ... and the node dictionaries of its current iteration
    investigation,  \* load: the local `investigation`
    returned,       \* the value the call returned (None until it returns)
    raised,         \* the exception the call propagated ("" when none)
    object_,        \* _createOntologyAnnotationsFromStringList: the record
    triples,        \* the annotation list object_ was joined from
    onto_annotations, \* ... and the list it returned
    link_in,        \* _createProcessSequence: its four arguments
    json_list,      \* ... and the list it returned
    resolved,       \* ... and its locals measurement_type, platform and
                    \*     technology, one record per iteration
    isa_obj,        \* dump: the object to write
    fp,             \* dump: the lines written to the sink so far
    validate_in,    \* validate: its arguments and the paths that exist
    calls,          \* validate: the commands handed to subprocess.call
    printed,        \* validate: the lines printed
    heap,           \* load: the entities allocated, by address, and for
                    \*     every study built the addresses its lists hold
    mtbls,          \* net.mtbls: the running call and its locals
    ftp,            \* net.mtbls.get: the FTP connection
    tmp_dirs        \* net.mtbls: the temporary directories on disk

vars == <<pc, isa_tab, study_array, dicts, investigation, returned, raised,
          object_, triples, onto_annotations, link_in, json_list, resolved,
          isa_obj, fp, validate_in, calls, printed, heap, mtbls, ftp, tmp_dirs>>

dumpVars == <<isa_obj, fp>>

validateVars == <<validate_in, calls, printed>>

mtblsVars == <<mtbls, ftp, tmp_dirs>>

None == [type |-> "None"]

\* nothing allocated, no study built
EmptyHeap == [objects |-> <<>>, studies |-> <<>>]

(***************************************************************************)
(* Bounds of the enumerated inputs.                                        *)
(***************************************************************************)
MaxNodes == 2       \* nodes in a node graph
MaxProcs == 2       \* process nodes in a study or assay
MaxArgs == 1        \* names in a process node's inputs / outputs
MaxStudies == 2     \* studies in a raw tree
MaxPubs == 2        \* raw publication records per scope
MaxStrLen == 2      \* characters in a raw ';'-joined field
MaxAnn == 2         \* annotations in a list that is joined

(***************************************************************************)
(* Generic helpers.                                                        *)
(***************************************************************************)
Range(s) == {s[i] : i \in 1..Len(s)}

SeqsUpTo(S, n) == UNION {[1..k -> S] : k \in 0..n}

\* str.join over the pieces of a str: the concatenation of the pieces
RECURSIVE Concat(_)
Concat(tokens) ==
    IF tokens = <<>> THEN "" ELSE Head(tokens) \o Concat(Tail(tokens))

(***************************************************************************)
(* Python dicts that keep insertion order: a sequence of [key, value]      *)
(* records.                                                                *)
(***************************************************************************)
Keys(d) == {d[i].key : i \in 1..Len(d)}

Lookup(d, k) == d[CHOOSE i \in 1..Len(d) : d[i].key = k].value

\* list(d.values())
Values(d) == [i \in 1..Len(d) |-> d[i].value]

(***************************************************************************)
(* Node Dictionaries (isatab.py 82-115, 168-177).                          *)
(***************************************************************************)
\* header.startswith("Characteristics")
IsCharacteristicsHeader(header) ==
    Len(header) > 0 /\ header[1] = "Characteristics"

\* header.replace("]", "")
RECURSIVE DropCloseBracket(_)
DropCloseBracket(header) ==
    IF header = <<>> THEN <<>>
    ELSE (IF Head(header) = "]" THEN <<>> ELSE <<Head(header)>>)
         \o DropCloseBracket(Tail(header))

\* s.split("[")[-1]: what follows the last "[" (the whole of s without one)
RECURSIVE LastBracketSegment(_)
LastBracketSegment(header) ==
    IF \E i \in 1..Len(header) : header[i] = "["
    THEN LastBracketSegment(
             SubSeq(header,
                    (CHOOSE i \in 1..Len(header) :
                        /\ header[i] = "["
                        /\ \A j \in 1..(i - 1) : header[j] # "[") + 1,
                    Len(header)))
    ELSE header

OntologyAnnotationNamed(name) ==
    [type |-> "OntologyAnnotation", name |-> name]

RECURSIVE CharacteristicsOf(_)
\* the loop of _createCharacteristicList over node.metadata
CharacteristicsOf(headers) ==
    IF headers = <<>> THEN <<>>
    ELSE (IF IsCharacteristicsHeader(Head(headers))
          THEN <<[characteristic |->
                    OntologyAnnotationNamed(
                        Concat(LastBracketSegment(DropCloseBracket(Head(headers)))))]>>
          ELSE <<>>)
         \o CharacteristicsOf(Tail(headers))

_createCharacteristicList(node_name, node) == CharacteristicsOf(node.metadata)

\* a slip: the test copied from _createSourcesDictionary unchanged
IsSampleTag_CopiedFromSources(ntype) == ntype = <<"Source", "Name">>

\* a slip: any "... Name" tag taken for a sample
IsSampleTag_AnyName(ntype) == Len(ntype) >= 1 /\ ntype[Len(ntype)] = "Name"

\* nodes[node_index].ntype == "Sample Name"
IsSampleTag(ntype) == ntype = <<"Sample", "Name">>

\* nodes[node_name].ntype == "Source Name"
IsSourceTag(ntype) == ntype = <<"Source", "Name">>

\* nodes[node_index].ntype.endswith("Data File")
IsDataTag(ntype) ==
    /\ Len(ntype) >= 2
    /\ SubSeq(ntype, Len(ntype) - 1, Len(ntype)) = <<"Data", "File">>

SampleItem(node) ==
    [name |-> node.name,
     factors |-> <<>>,
     characteristics |-> _createCharacteristicList(node.name, node)]

SourceItem(node) ==
    [name |-> node.name,
     characteristics |-> _createCharacteristicList(node.name, node)]

DataItem(node) ==
    [type |-> "Data", name |-> node.name, type_ |-> Concat(node.ntype)]

RECURSIVE _createSampleDictionary(_)
_createSampleDictionary(nodes) ==
    IF nodes = <<>> THEN <<>>
    ELSE (IF IsSampleTag(Head(nodes).ntype)
          THEN <<[key |-> Head(nodes).name, value |-> SampleItem(Head(nodes))]>>
          ELSE <<>>)
         \o _createSampleDictionary(Tail(nodes))

RECURSIVE _createSourcesDictionary(_)
_createSourcesDictionary(nodes) ==
    IF nodes = <<>> THEN <<>>
    ELSE (IF IsSourceTag(Head(nodes).ntype)
          THEN <<[key |-> Head(nodes).name, value |-> SourceItem(Head(nodes))]>>
          ELSE <<>>)
         \o _createSourcesDictionary(Tail(nodes))

RECURSIVE _createDataFiles(_)
_createDataFiles(nodes) ==
    IF nodes = <<>> THEN <<>>
    ELSE (IF IsDataTag(Head(nodes).ntype)
          THEN <<[key |-> Head(nodes).name, value |-> DataItem(Head(nodes))]>>
          ELSE <<>>)
         \o _createDataFiles(Tail(nodes))

(***************************************************************************)
(* Process Sequence Linker (isatab.py 179-239).                            *)
(***************************************************************************)
\* a slip: one try block for both lookups, so that the sample dictionary is
\* consulted only for a name the source dictionary does not hold
RECURSIVE _createInputList_FirstMatchOnly(_, _, _)
_createInputList_FirstMatchOnly(inputs, source_dict, sample_dict) ==
    IF inputs = <<>> THEN <<>>
    ELSE (IF Head(inputs) \in Keys(source_dict)
          THEN <<Lookup(source_dict, Head(inputs))>>
          ELSE IF Head(inputs) \in Keys(sample_dict)
               THEN <<Lookup(sample_dict, Head(inputs))>> ELSE <<>>)
         \o _createInputList_FirstMatchOnly(Tail(inputs), source_dict, sample_dict)

RECURSIVE _createInputList(_, _, _)
_createInputList(inputs, source_dict, sample_dict) ==
    IF inputs = <<>> THEN <<>>
    ELSE (IF Head(inputs) \in Keys(source_dict)
          THEN <<Lookup(source_dict, Head(inputs))>> ELSE <<>>)
         \o (IF Head(inputs) \in Keys(sample_dict)
             THEN <<Lookup(sample_dict, Head(inputs))>> ELSE <<>>)
         \o _createInputList(Tail(inputs), source_dict, sample_dict)

\* a slip: an unresolved name kept as a stub entry
RECURSIVE _createOutputList_KeepsUnresolved(_, _)
_createOutputList_KeepsUnresolved(arguments, sample_dict) ==
    IF arguments = <<>> THEN <<>>
    ELSE (IF Head(arguments) \in Keys(sample_dict)
          THEN <<Lookup(sample_dict, Head(arguments))>>
          ELSE <<[name |-> Head(arguments), factors |-> <<>>, characteristics |-> <<>>]>>)
         \o _createOutputList_KeepsUnresolved(Tail(arguments), sample_dict)

RECURSIVE _createOutputList(_, _)
_createOutputList(arguments, sample_dict) ==
    IF arguments = <<>> THEN <<>>
    ELSE (IF Head(arguments) \in Keys(sample_dict)
          THEN <<Lookup(sample_dict, Head(arguments))>> ELSE <<>>)
         \o _createOutputList(Tail(arguments), sample_dict)

\* a slip: the commented-out "name" entry is live
_createExecuteStudyProtocol_Named(process_node_name, process_node) ==
    <<[key |-> "name", value |-> process_node_name]>>

\* dict([]) : every entry is commented out in the source
_createExecuteStudyProtocol(process_node_name, process_node) == <<>>

\* the json_item of one iteration of _createProcessSequence
ProcessItem(process_node, source_dict, sample_dict) ==
    [executesProtocol |-> _createExecuteStudyProtocol(process_node.name, process_node),
     parameters |-> <<>>,
     inputs |-> _createInputList(process_node.inputs, source_dict, sample_dict),
     outputs |-> _createOutputList(process_node.outputs, sample_dict)]

\* process_nodes[name].study_assay.metadata[key] inside try / except: the
\* value, or "" when the node has no study_assay, the study_assay is None or
\* its metadata lacks the key
AssayField(process_node, key) ==
    IF /\ "study_assay" \in DOMAIN process_node
       /\ process_node.study_assay # None
       /\ key \in DOMAIN process_node.study_assay.metadata
    THEN process_node.study_assay.metadata[key]
    ELSE ""

\* a slip: one try block around the three lookups
ProcessFields_OneTry(process_node) ==
    LET keys == {"Study Assay Measurement Type", "Study Assay Technology Platform",
                 "Study Assay Technology Type"}
        all == \A k \in keys : AssayField(process_node, k) # ""
    IN [measurement_type |->
            IF all THEN AssayField(process_node, "Study Assay Measurement Type") ELSE "",
        platform |->
            IF all THEN AssayField(process_node, "Study Assay Technology Platform") ELSE "",
        technology |->
            IF all THEN AssayField(process_node, "Study Assay Technology Type") ELSE ""]

\* lines 182-195: the three locals of one iteration of _createProcessSequence
ProcessFields(process_node) ==
    [measurement_type |-> AssayField(process_node, "Study Assay Measurement Type"),
     platform |-> AssayField(process_node, "Study Assay Technology Platform"),
     technology |-> AssayField(process_node, "Study Assay Technology Type")]

\* a slip: a process none of whose names resolve is not appended
RECURSIVE _createProcessSequence_SkipsUnresolved(_, _, _, _)
_createProcessSequence_SkipsUnresolved(process_nodes, source_dict, sample_dict, data_dict) ==
    IF process_nodes = <<>> THEN <<>>
    ELSE LET item == ProcessItem(Head(process_nodes), source_dict, sample_dict)
         IN (IF item.inputs = <<>> /\ item.outputs = <<>> THEN <<>> ELSE <<item>>)
            \o _createProcessSequence_SkipsUnresolved(
                   Tail(process_nodes), source_dict, sample_dict, data_dict)

RECURSIVE _createProcessSequence(_, _, _, _)
_createProcessSequence(process_nodes, source_dict, sample_dict, data_dict) ==
    IF process_nodes = <<>> THEN <<>>
    ELSE <<ProcessItem(Head(process_nodes), source_dict, sample_dict)>>
         \o _createProcessSequence(Tail(process_nodes), source_dict, sample_dict, data_dict)

(***************************************************************************)
(* Annotation Assembler (isatab.py 153-165).  A ';'-joined field is a      *)
(* sequence of characters.                                                 *)
(***************************************************************************)
\* a slip: str.split() semantics, which drops the empty pieces
RECURSIVE Split_DropsEmpty(_)
Split_DropsEmpty(s) ==
    IF \E i \in 1..Len(s) : s[i] = ";"
    THEN LET i == CHOOSE i \in 1..Len(s) :
                    /\ s[i] = ";"
                    /\ \A j \in 1..(i - 1) : s[j] # ";"
         IN (IF i = 1 THEN <<>> ELSE <<SubSeq(s, 1, i - 1)>>)
            \o Split_DropsEmpty(SubSeq(s, i + 1, Len(s)))
    ELSE IF s = <<>> THEN <<>> ELSE <<s>>

\* str.split(";"): the pieces between the semicolons, [""] for ""
RECURSIVE Split(_)
Split(s) ==
    IF \E i \in 1..Len(s) : s[i] = ";"
    THEN LET i == CHOOSE i \in 1..Len(s) :
                    /\ s[i] = ";"
                    /\ \A j \in 1..(i - 1) : s[j] # ";"
         IN <<SubSeq(s, 1, i - 1)>> \o Split(SubSeq(s, i + 1, Len(s)))
    ELSE <<s>>

\* ";".join(tokens): how a list is written into one field (the inverse the
\* round trip is stated against)
RECURSIVE Join(_)
Join(tokens) ==
    IF tokens = <<>> THEN <<>>
    ELSE IF Len(tokens) = 1 THEN tokens[1]
    ELSE tokens[1] \o <<";">> \o Join(Tail(tokens))

\* the three headers an annotation is read from
AnnotationHeaders(inv_or_study, type_) ==
    {inv_or_study \o type_,
     inv_or_study \o type_ \o " Term Source REF",
     inv_or_study \o type_ \o " Term Accession Number"}

\* the exception _createOntologyAnnotationsFromStringList raises on rec, "" if none
AnnotationsFromStringListError(rec, inv_or_study, type_) ==
    IF ~(AnnotationHeaders(inv_or_study, type_) \subseteq DOMAIN rec)
    THEN "KeyError"
    ELSE LET name_array == Split(rec[inv_or_study \o type_])
             term_source_array == Split(rec[inv_or_study \o type_ \o " Term Source REF"])
             term_accession_array ==
                 Split(rec[inv_or_study \o type_ \o " Term Accession Number"])
         IN IF \E i \in 1..Len(name_array) :
                   i > Len(term_source_array) \/ i > Len(term_accession_array)
            THEN "IndexError"
            ELSE ""

\* the list it returns when it raises nothing
_createOntologyAnnotationsFromStringList(rec, inv_or_study, type_) ==
    LET name_array == Split(rec[inv_or_study \o type_])
        term_source_array == Split(rec[inv_or_study \o type_ \o " Term Source REF"])
        term_accession_array ==
            Split(rec[inv_or_study \o type_ \o " Term Accession Number"])
    IN [i \in 1..Len(name_array) |->
           [type |-> "OntologyAnnotation",
            name |-> name_array[i],
            term_source |-> term_source_array[i],
            term_accession |-> term_accession_array[i]]]

(***************************************************************************)
(* Entity Builders (isatab.py 31-79, 117-151).  Each builder comes with    *)
(* the exception it raises on its argument ("" when it raises none).       *)
(***************************************************************************)
OntologyRefHeaders ==
    {"Term Source Description", "Term Source File", "Term Source Name",
     "Term Source Version"}

_createOntologySourceReferences(ontology_refs) ==
    [i \in 1..Len(ontology_refs) |->
        [type |-> "OntologySourceReference",
         description |-> ontology_refs[i]["Term Source Description"],
         file |-> ontology_refs[i]["Term Source File"],
         name |-> ontology_refs[i]["Term Source Name"],
         version |-> ontology_refs[i]["Term Source Version"]]]

OntologySourceReferencesError(ontology_refs) ==
    IF \E i \in 1..Len(ontology_refs) : ~(OntologyRefHeaders \subseteq DOMAIN ontology_refs[i])
    THEN "KeyError" ELSE ""

_createOntologyAnnotationForInvOrStudy(rec, inv_or_study, type_) ==
    [type |-> "OntologyAnnotation",
     name |-> rec[inv_or_study \o type_],
     term_source |-> rec[inv_or_study \o type_ \o " Term Source REF"],
     term_accession |-> rec[inv_or_study \o type_ \o " Term Accession Number"]]

PublicationHeaders(inv_or_study) ==
    {inv_or_study \o " PubMed ID", inv_or_study \o " Publication DOI",
     inv_or_study \o " Publication Author List", inv_or_study \o " Publication Title"}
    \cup AnnotationHeaders(inv_or_study, " Publication Status")

\* the body of the for loop of _createPublications, over the list it iterates
PublicationLoop(pubs, inv_or_study) ==
    [i \in 1..Len(pubs) |->
        [type |-> "Publication",
         pubmed_id |-> pubs[i][inv_or_study \o " PubMed ID"],
         doi |-> pubs[i][inv_or_study \o " Publication DOI"],
         author_list |-> pubs[i][inv_or_study \o " Publication Author List"],
         title |-> pubs[i][inv_or_study \o " Publication Title"],
         status |-> _createOntologyAnnotationForInvOrStudy(
                        pubs[i], inv_or_study, " Publication Status")]]

PublicationLoopError(pubs, inv_or_study) ==
    IF \E i \in 1..Len(pubs) : ~(PublicationHeaders(inv_or_study) \subseteq DOMAIN pubs[i])
    THEN "KeyError" ELSE ""

\* line 44, `publications = []`, rebinds the parameter: the loop of line 45
\* iterates the new, empty list and not the caller's records
PublicationsIterated(publications) == <<>>

_createPublications(publications, inv_or_study) ==
    PublicationLoop(PublicationsIterated(publications), inv_or_study)

PublicationsError(publications, inv_or_study) ==
    PublicationLoopError(PublicationsIterated(publications), inv_or_study)

ContactSuffixes ==
    {" Person Last Name", " Person First Name", " Person Mid Initials",
     " Person Email", " Person Phone", " Person Fax", " Person Address",
     " Person Affiliation"}

_createContacts(contacts, inv_or_study) ==
    [i \in 1..Len(contacts) |->
        [type |-> "Contact",
         last_name |-> contacts[i][inv_or_study \o " Person Last Name"],
         first_name |-> contacts[i][inv_or_study \o " Person First Name"],
         mid_initials |-> contacts[i][inv_or_study \o " Person Mid Initials"],
         email |-> contacts[i][inv_or_study \o " Person Email"],
         phone |-> contacts[i][inv_or_study \o " Person Phone"],
         fax |-> contacts[i][inv_or_study \o " Person Fax"],
         address |-> contacts[i][inv_or_study \o " Person Address"],
         affiliation |-> contacts[i][inv_or_study \o " Person Affiliation"],
         roles |-> <<>>]]

ContactsError(contacts, inv_or_study) ==
    IF \E i \in 1..Len(contacts) :
          \E sfx \in ContactSuffixes : (inv_or_study \o sfx) \notin DOMAIN contacts[i]
    THEN "KeyError" ELSE ""

_createOntologyAnnotationListForInvOrStudy(array, inv_or_study, type_) ==
    [i \in 1..Len(array) |->
        _createOntologyAnnotationForInvOrStudy(array[i], inv_or_study, type_)]

OntologyAnnotationListError(array, inv_or_study, type_) ==
    IF \E i \in 1..Len(array) :
          ~(AnnotationHeaders(inv_or_study, type_) \subseteq DOMAIN array[i])
    THEN "KeyError" ELSE ""

\* a slip: only the name token reaches the annotation
_createProtocolParameterList_NameOnly(protocol) ==
    LET name_array == Split(protocol["Study Protocol Parameters Name"])
    IN [i \in 1..Len(name_array) |->
           [type |-> "ProtocolParameter",
            name |-> [type |-> "OntologyAnnotation", name |-> name_array[i],
                      term_source |-> <<>>, term_accession |-> <<>>]]]

_createProtocolParameterList(protocol) ==
    LET parameters_annotations ==
            _createOntologyAnnotationsFromStringList(
                protocol, "Study", " Protocol Parameters Name")
    IN [i \in 1..Len(parameters_annotations) |->
           [type |-> "ProtocolParameter", name |-> parameters_annotations[i]]]

ProtocolHeaders ==
    {"Study Protocol Name", "Study Protocol Description", "Study Protocol URI",
     "Study Protocol Version"} \cup AnnotationHeaders("Study", " Protocol Type")

_createProtocols(protocols) ==
    [i \in 1..Len(protocols) |->
        [type |-> "Protocol",
         name |-> protocols[i]["Study Protocol Name"],
         protocol_type |-> _createOntologyAnnotationForInvOrStudy(
                               protocols[i], "Study", " Protocol Type"),
         description |-> protocols[i]["Study Protocol Description"],
         uri |-> protocols[i]["Study Protocol URI"],
         version |-> protocols[i]["Study Protocol Version"],
         parameters |-> _createProtocolParameterList(protocols[i])]]

\* the first protocol record that raises decides the exception
RECURSIVE ProtocolsError(_)
ProtocolsError(protocols) ==
    IF protocols = <<>> THEN ""
    ELSE IF ~(ProtocolHeaders \subseteq DOMAIN Head(protocols)) THEN "KeyError"
    ELSE IF AnnotationsFromStringListError(
                Head(protocols), "Study", " Protocol Parameters Name") # ""
         THEN AnnotationsFromStringListError(
                  Head(protocols), "Study", " Protocol Parameters Name")
    ELSE ProtocolsError(Tail(protocols))

(***************************************************************************)
(* Graph Assembler (isatab.py 241-306).                                    *)
(***************************************************************************)
AssayKeys ==
    {"Study Assay File Name", "Study Assay Technology Platform"}
    \cup AnnotationHeaders("Study Assay", " Measurement Type")
    \cup AnnotationHeaders("Study Assay", " Technology Type")

\* one iteration of _createStudyAssaysList
AssayItem(assay) ==
    LET source_dict == _createSourcesDictionary(assay.nodes)
        sample_dict == _createSampleDictionary(assay.nodes)
        data_dict == _createDataFiles(assay.nodes)
    IN [type |-> "Assay",
        file_name |-> assay.metadata["Study Assay File Name"],
        measurement_type |->
            _createOntologyAnnotationForInvOrStudy(
                assay.metadata, "Study Assay", " Measurement Type"),
        technology_type |->
            _createOntologyAnnotationForInvOrStudy(
                assay.metadata, "Study Assay", " Technology Type"),
        technology_platform |-> assay.metadata["Study Assay Technology Platform"],
        process_sequence |->
            _createProcessSequence(assay.process_nodes, source_dict, sample_dict, data_dict)]

_createStudyAssaysList(assays) == [i \in 1..Len(assays) |-> AssayItem(assays[i])]

StudyAssaysListError(assays) ==
    IF \E i \in 1..Len(assays) : ~(AssayKeys \subseteq DOMAIN assays[i].metadata)
    THEN "KeyError" ELSE ""

StudyKeys ==
    {"Study Identifier", "Study Title", "Study Description",
     "Study Submission Date", "Study Public Release Date"}

\* lines 266-268 (and 244-246): the three dictionaries of one node graph
NodeDictionaries(nodes) ==
    [nodes |-> nodes,
     source_dict |-> _createSourcesDictionary(nodes),
     sample_dict |-> _createSampleDictionary(nodes),
     data_dict |-> _createDataFiles(nodes)]

\* the Study built by one iteration of _createStudies
StudyItem(study) ==
    LET source_dict == _createSourcesDictionary(study.nodes)
        sample_dict == _createSampleDictionary(study.nodes)
        data_dict == _createDataFiles(study.nodes)
    IN [type |-> "Study",
        identifier |-> study.metadata["Study Identifier"],
        title |-> study.metadata["Study Title"],
        description |-> study.metadata["Study Description"],
        submission_date |-> study.metadata["Study Submission Date"],
        public_release_date |-> study.metadata["Study Public Release Date"],
        design_descriptors |->
            _createOntologyAnnotationListForInvOrStudy(
                study.design_descriptors, "Study", " Design Type"),
        publications |-> _createPublications(study.publications, "Study"),
        contacts |-> _createContacts(study.contacts, "Study"),
        protocols |-> _createProtocols(study.protocols),
        sources |-> Values(source_dict),
        samples |-> Values(sample_dict),
        process_sequence |->
            _createProcessSequence(study.process_nodes, source_dict, sample_dict, data_dict),
        assays |-> _createStudyAssaysList(study.assays)]

\* the exception that iteration raises, in the order the arguments of
\* Study(...) are evaluated; "" when it raises none
StudyError(study) ==
    IF ~(StudyKeys \subseteq DOMAIN study.metadata) THEN "KeyError"
    ELSE IF OntologyAnnotationListError(study.design_descriptors, "Study", " Design Type") # ""
         THEN OntologyAnnotationListError(study.design_descriptors, "Study", " Design Type")
    ELSE IF PublicationsError(study.publications, "Study") # ""
         THEN PublicationsError(study.publications, "Study")
    ELSE IF ContactsError(study.contacts, "Study") # ""
         THEN ContactsError(study.contacts, "Study")
    ELSE IF ProtocolsError(study.protocols) # "" THEN ProtocolsError(study.protocols)
    ELSE StudyAssaysListError(study.assays)

(***************************************************************************)
(* The same build with object identity.  Every dict([...]) of the node     *)
(* dictionaries allocates one object, at the next free address; a          *)
(* dictionary holds the address under the name, and source_dict[argument], *)
(* list(source_dict.values()) and json_list.append hand the address on.    *)
(* The linker is the one above, run on the dictionaries of addresses.      *)
(***************************************************************************)
\* the dictionary with, as values, the addresses of its items: the i-th
\* item allocated after `base` objects is at address base + i
Addressed(dict, base) ==
    [i \in 1..Len(dict) |-> [key |-> dict[i].key, value |-> base + i]]

\* a slip: the linker is handed dictionaries built a second time
GraphReferences_LinksAgainstRebuilt(nodes, process_nodes, base) ==
    LET source_dict == _createSourcesDictionary(nodes)
        sample_dict == _createSampleDictionary(nodes)
        data_dict == _createDataFiles(nodes)
        objects == Values(source_dict) \o Values(sample_dict) \o Values(data_dict)
        source_refs == Addressed(source_dict, base)
        sample_refs == Addressed(sample_dict, base + Len(source_dict))
        again == base + Len(objects)
    IN [objects |-> objects \o objects,
        sources |-> Values(source_refs),
        samples |-> Values(sample_refs),
        process_sequence |->
            _createProcessSequence(
                process_nodes,
                Addressed(source_dict, again),
                Addressed(sample_dict, again + Len(source_dict)),
                Addressed(data_dict, again + Len(source_dict) + Len(sample_dict)))]

\* lines 243-245 and 258, 266-268 and 280-283: the three dictionaries of one
\* node graph, allocated in that order, the two lists of values and the
\* process sequence linked against them
GraphReferences(nodes, process_nodes, base) ==
    LET source_dict == _createSourcesDictionary(nodes)
        sample_dict == _createSampleDictionary(nodes)
        data_dict == _createDataFiles(nodes)
        source_refs == Addressed(source_dict, base)
        sample_refs == Addressed(sample_dict, base + Len(source_dict))
        data_refs == Addressed(data_dict, base + Len(source_dict) + Len(sample_dict))
    IN [objects |-> Values(source_dict) \o Values(sample_dict) \o Values(data_dict),
        sources |-> Values(source_refs),
        samples |-> Values(sample_refs),
        process_sequence |->
            _createProcessSequence(process_nodes, source_refs, sample_refs, data_refs)]

\* lines 241-261: every assay allocates and links its own dictionaries
RECURSIVE AssayReferences(_, _)
AssayReferences(assays, base) ==
    IF assays = <<>> THEN <<>>
    ELSE LET own == GraphReferences(Head(assays).nodes, Head(assays).process_nodes, base)
         IN <<own>> \o AssayReferences(Tail(assays), base + Len(own.objects))

RECURSIVE AllObjects(_)
AllObjects(graphs) ==
    IF graphs = <<>> THEN <<>> ELSE Head(graphs).objects \o AllObjects(Tail(graphs))

\* a slip: the assays are linked against the dictionaries of the study
StudyReferences_AssaysShareDictionaries(study, base) ==
    LET own == GraphReferences(study.nodes, study.process_nodes, base)
        source_refs == Addressed(_createSourcesDictionary(study.nodes), base)
        sample_refs == Addressed(_createSampleDictionary(study.nodes),
                                 base + Len(source_refs))
        assays == AssayReferences(study.assays, base + Len(own.objects))
    IN [objects |-> own.objects \o AllObjects(assays),
        sources |-> own.sources,
        samples |-> own.samples,
        process_sequence |-> own.process_sequence,
        assays |-> [j \in 1..Len(assays) |->
                       [sources |-> assays[j].sources,
                        samples |-> assays[j].samples,
                        process_sequence |->
                            _createProcessSequence(study.assays[j].process_nodes,
                                                   source_refs, sample_refs, <<>>)]]]

\* lines 265-285: the objects one iteration of _createStudies allocates, the
\* dictionaries of the study first and those of its assays after them
StudyReferences(study, base) ==
    LET own == GraphReferences(study.nodes, study.process_nodes, base)
        assays == AssayReferences(study.assays, base + Len(own.objects))
    IN [objects |-> own.objects \o AllObjects(assays),
        sources |-> own.sources,
        samples |-> own.samples,
        process_sequence |-> own.process_sequence,
        assays |-> [j \in 1..Len(assays) |->
                       [sources |-> assays[j].sources,
                        samples |-> assays[j].samples,
                        process_sequence |-> assays[j].process_sequence]]]

InvestigationKeys ==
    {"Investigation Identifier", "Investigation Title", "Investigation Description",
     "Investigation Submission Date", "Investigation Public Release Date"}

\* the exception raised by the arguments of Investigation(...) that precede
\* studies=, "" when none
InvestigationFieldsError(tab) ==
    IF ~(InvestigationKeys \subseteq DOMAIN tab.metadata) THEN "KeyError"
    ELSE IF OntologySourceReferencesError(tab.ontology_refs) # ""
         THEN OntologySourceReferencesError(tab.ontology_refs)
    ELSE IF PublicationsError(tab.publications, "Investigation") # ""
         THEN PublicationsError(tab.publications, "Investigation")
    ELSE ContactsError(tab.contacts, "Investigation")

InvestigationOf(tab, studies) ==
    [type |-> "Investigation",
     identifier |-> tab.metadata["Investigation Identifier"],
     title |-> tab.metadata["Investigation Title"],
     description |-> tab.metadata["Investigation Description"],
     submission_date |-> tab.metadata["Investigation Submission Date"],
     public_release_date |-> tab.metadata["Investigation Public Release Date"],
     ontology_source_references |-> _createOntologySourceReferences(tab.ontology_refs),
     publications |-> _createPublications(tab.publications, "Investigation"),
     contacts |-> _createContacts(tab.contacts, "Investigation"),
     studies |-> studies]

(***************************************************************************)
(* load(isatab_dir), isatab.py 288-306, one action per step.  pc is "load" *)
(* once isatab_parser.parse has returned isa_tab, "studies" inside the     *)
(* loop of _createStudies, then "returned" or "raised".                    *)
(***************************************************************************)
LoadUnchanged ==
    UNCHANGED <<isa_tab, object_, triples, onto_annotations, link_in, json_list,
                resolved, dumpVars, validateVars, mtblsVars>>

\* lines 290-291: isa_tab is None
LoadParseFailed ==
    /\ pc = "load"
    /\ isa_tab = None
    /\ pc' = "raised"
    /\ raised' = "IOError"
    /\ UNCHANGED <<study_array, dicts, investigation, returned, heap>>
    /\ LoadUnchanged

\* a slip: no metadata reported like a failed parse
LoadNoMetadata_Raises ==
    /\ pc = "load"
    /\ isa_tab # None
    /\ DOMAIN isa_tab.metadata = {}
    /\ pc' = "raised"
    /\ raised' = "IOError"
    /\ UNCHANGED <<study_array, dicts, investigation, returned, heap>>
    /\ LoadUnchanged

\* line 293 false: the metadata is {}, line 306 returns the initial None
LoadNoMetadata ==
    /\ pc = "load"
    /\ isa_tab # None
    /\ DOMAIN isa_tab.metadata = {}
    /\ pc' = "returned"
    /\ returned' = investigation
    /\ UNCHANGED <<study_array, dicts, investigation, raised, heap>>
    /\ LoadUnchanged

\* lines 295-303: the arguments of Investigation(...) before studies=
LoadInvestigationFields ==
    /\ pc = "load"
    /\ isa_tab # None
    /\ DOMAIN isa_tab.metadata # {}
    /\ InvestigationFieldsError(isa_tab) = ""
    /\ pc' = "studies"
    /\ study_array' = <<>>
    /\ UNCHANGED <<dicts, investigation, returned, raised, heap>>
    /\ LoadUnchanged

LoadInvestigationFieldsRaise ==
    /\ pc = "load"
    /\ isa_tab # None
    /\ DOMAIN isa_tab.metadata # {}
    /\ InvestigationFieldsError(isa_tab) # ""
    /\ pc' = "raised"
    /\ raised' = InvestigationFieldsError(isa_tab)
    /\ UNCHANGED <<study_array, dicts, investigation, returned, heap>>
    /\ LoadUnchanged

\* lines 265-285: one iteration of the loop of _createStudies
CreateStudy ==
    /\ pc = "studies"
    /\ Len(study_array) < Len(isa_tab.studies)
    /\ LET study == isa_tab.studies[Len(study_array) + 1]
       IN /\ StudyError(study) = ""
          /\ dicts' = NodeDictionaries(study.nodes)
          /\ study_array' = Append(study_array, StudyItem(study))
          /\ LET built == StudyReferences(study, Len(heap.objects))
             IN heap' = [objects |-> heap.objects \o built.objects,
                         studies |-> Append(heap.studies,
                                            [k \in DOMAIN built \ {"objects"} |-> built[k]])]
    /\ UNCHANGED <<pc, investigation, returned, raised>>
    /\ LoadUnchanged

\* a slip: the exception caught around the loop body, the loop left, and the
\* studies built so far returned in an Investigation
CreateStudyRaises_ReturnsPartial ==
    /\ pc = "studies"
    /\ Len(study_array) < Len(isa_tab.studies)
    /\ LET study == isa_tab.studies[Len(study_array) + 1]
       IN /\ StudyError(study) # ""
          /\ dicts' = NodeDictionaries(study.nodes)
    /\ investigation' = InvestigationOf(isa_tab, study_array)
    /\ returned' = investigation'
    /\ pc' = "returned"
    /\ UNCHANGED <<study_array, raised, heap>>
    /\ LoadUnchanged

\* a slip: a failing lookup degrades to an empty study instead of raising
CreateStudyRaises_Degrades ==
    /\ pc = "studies"
    /\ Len(study_array) < Len(isa_tab.studies)
    /\ LET study == isa_tab.studies[Len(study_array) + 1]
       IN /\ StudyError(study) # ""
          /\ dicts' = NodeDictionaries(study.nodes)
          /\ study_array' = Append(study_array,
                                   [type |-> "Study", sources |-> <<>>, samples |-> <<>>,
                                    process_sequence |-> <<>>, assays |-> <<>>])
          /\ heap' = [heap EXCEPT !.studies =
                          Append(@, [sources |-> <<>>, samples |-> <<>>,
                                     process_sequence |-> <<>>, assays |-> <<>>])]
    /\ UNCHANGED <<pc, investigation, returned, raised>>
    /\ LoadUnchanged

\* ... that raises: the exception leaves _createStudies and load
CreateStudyRaises ==
    /\ pc = "studies"
    /\ Len(study_array) < Len(isa_tab.studies)
    /\ LET study == isa_tab.studies[Len(study_array) + 1]
       IN /\ StudyError(study) # ""
          /\ dicts' = NodeDictionaries(study.nodes)
          /\ raised' = StudyError(study)
    /\ pc' = "raised"
    /\ UNCHANGED <<study_array, investigation, returned, heap>>
    /\ LoadUnchanged

\* lines 286, 295 and 306: the loop is over, the Investigation is built,
\* bound to `investigation` and returned
LoadReturn ==
    /\ pc = "studies"
    /\ Len(study_array) = Len(isa_tab.studies)
    /\ investigation' = InvestigationOf(isa_tab, study_array)
    /\ returned' = investigation'
    /\ pc' = "returned"
    /\ UNCHANGED <<study_array, dicts, raised, heap>>
    /\ LoadUnchanged

(***************************************************************************)
(* The raw parse trees load is run on.  isatab_parser (not part of this    *)
(* module) hands over any tree of the documented shape, so the trees are   *)
(* enumerated: every node graph, every process node, every prefix of       *)
(* missing metadata, within the bounds.                                    *)
(***************************************************************************)
Digit(i) == <<"1", "2", "3", "4", "5", "6", "7", "8", "9">>[i]

\* a raw record with the given headers: value id under header idkey, "" elsewhere
RawRecord(headers, idkey, id) == [h \in headers |-> IF h = idkey THEN id ELSE ""]

NodeNames == {"source1", "sample1", "file1"}

NodeTypes ==
    {<<"Source", "Name">>, <<"Sample", "Name">>, <<"Raw", "Data", "File">>,
     <<"Extract", "Name">>}

NodeMetadatas ==
    {<<>>,
     << <<"Characteristics", "[", "organism", "]">>, <<"Factor Value", "[", "dose", "]">> >>}

RawNodes == [name : NodeNames, ntype : NodeTypes, metadata : NodeMetadatas]

\* node graphs: a dict has one node per name
NodeGraphs ==
    {g \in SeqsUpTo(RawNodes, MaxNodes) :
        \A i, j \in 1..Len(g) : i # j => g[i].name # g[j].name}

Node(name, ntype) == [name |-> name, ntype |-> ntype, metadata |-> <<>>]

BaseGraphs ==
    {<<Node("source1", <<"Source", "Name">>), Node("sample1", <<"Sample", "Name">>)>>,
     <<Node("sample1", <<"Sample", "Name">>), Node("source1", <<"Source", "Name">>),
       Node("file1", <<"Raw", "Data", "File">>)>>,
     <<Node("extract1", <<"Extract", "Name">>), Node("file1", <<"Derived", "Data", "File">>),
       Node("sample1", <<"Sample", "Name">>), Node("source1", <<"Source", "Name">>)>>}

\* process nodes are keyed by name: the i-th is named process<i>
NamedProcesses(procs) ==
    [i \in 1..Len(procs) |->
        [name |-> "process" \o Digit(i),
         inputs |-> procs[i].inputs,
         outputs |-> procs[i].outputs]]

ProcessArgs == SeqsUpTo(NodeNames, MaxArgs)

BaseProcesses ==
    {[inputs |-> <<"source1">>, outputs |-> <<"sample1">>],
     [inputs |-> <<"sample1">>, outputs |-> <<"file1">>],
     [inputs |-> <<"file1">>, outputs |-> <<"source1">>],
     [inputs |-> <<"source1", "sample1">>, outputs |-> <<"sample1", "nowhere">>]}

ProcessSeqs ==
    {NamedProcesses(ps) : ps \in SeqsUpTo(BaseProcesses, MaxProcs)}
    \cup {NamedProcesses(<<[inputs |-> i, outputs |-> o]>>) :
            i \in ProcessArgs, o \in ProcessArgs}

ExampleProcesses ==
    {NamedProcesses(<<[inputs |-> <<"source1">>, outputs |-> <<"sample1">>]>>),
     NamedProcesses(<<[inputs |-> <<"sample1", "file1">>, outputs |-> <<"file1">>],
                      [inputs |-> <<"nowhere">>, outputs |-> <<"extract1">>],
                      [inputs |-> <<"source1">>,
                       outputs |-> <<"source1", "sample1", "file1", "nowhere">>]>>)}

PublicationLists(inv_or_study) ==
    {[i \in 1..n |->
        RawRecord(PublicationHeaders(inv_or_study),
                  inv_or_study \o " PubMed ID", "pmid" \o Digit(i))] :
     n \in 0..MaxPubs}

ContactLists(inv_or_study) ==
    {<<>>,
     <<RawRecord({inv_or_study \o sfx : sfx \in ContactSuffixes},
                 inv_or_study \o " Person Last Name", "Doe")>>}

AssayMetadata == RawRecord(AssayKeys, "Study Assay File Name", "a_assay.txt")

RawAssay(metadata, nodes, process_nodes) ==
    [metadata |-> metadata, nodes |-> nodes, process_nodes |-> process_nodes]

RawStudy(metadata, nodes, process_nodes, publications, assays) ==
    [metadata |-> metadata,
     design_descriptors |-> <<>>,
     publications |-> publications,
     contacts |-> <<>>,
     protocols |-> <<>>,
     nodes |-> nodes,
     process_nodes |-> process_nodes,
     assays |-> assays]

StudyMetadata == RawRecord(StudyKeys, "Study Identifier", "S1")

\* the metadata with one header, or none, missing
OneMissing(metadata) ==
    {metadata} \cup {[h \in (DOMAIN metadata) \ {k} |-> metadata[h]] : k \in DOMAIN metadata}

ExampleGraph ==
    <<Node("source1", <<"Source", "Name">>), Node("sample1", <<"Sample", "Name">>)>>

\* studies that differ in what is missing from them
StudyVariants ==
    {RawStudy(m, ExampleGraph, <<>>, <<>>, <<>>) : m \in OneMissing(StudyMetadata)}
    \cup {RawStudy(StudyMetadata, ExampleGraph, <<>>, <<>>,
                   <<RawAssay(m, ExampleGraph, <<>>)>>) :
            m \in {AssayMetadata,
                   [h \in AssayKeys \ {"Study Assay Technology Platform"} |-> ""]}}
    \* an assay that lacks one of the headers the linker reads as well, with a
    \* process node of its own
    \cup {RawStudy(StudyMetadata, ExampleGraph, <<>>, <<>>,
                   <<RawAssay([h \in AssayKeys \ {k} |-> ""], ExampleGraph,
                              NamedProcesses(<<[inputs |-> <<"source1">>,
                                                outputs |-> <<"sample1">>]>>))>>) :
            k \in {"Study Assay Measurement Type", "Study Assay Technology Type",
                   "Study Assay Technology Platform"}}

InvestigationMetadata ==
    RawRecord(InvestigationKeys, "Investigation Identifier", "INV1")

RawTree(metadata, ontology_refs, publications, contacts, studies) ==
    [type |-> "ISATab",
     metadata |-> metadata,
     ontology_refs |-> ontology_refs,
     publications |-> publications,
     contacts |-> contacts,
     studies |-> studies]

OntologyRefLists ==
    {<<>>, <<RawRecord(OntologyRefHeaders, "Term Source Name", "OBI")>>}

\* a field as the parser hands it over: any characters, ';' among them
RawStrings == SeqsUpTo({"a", ";"}, MaxStrLen)

\* a protocol record with any three parameter fields
ProtocolRecord(names, sources, accessions) ==
    [h \in ProtocolHeaders \cup AnnotationHeaders("Study", " Protocol Parameters Name") |->
        IF h = "Study Protocol Name" THEN <<"a">>
        ELSE IF h = "Study Protocol Parameters Name" THEN names
        ELSE IF h = "Study Protocol Parameters Name Term Source REF" THEN sources
        ELSE IF h = "Study Protocol Parameters Name Term Accession Number" THEN accessions
        ELSE <<>>]

\* an assay graph without the source of the study's graph
SampleOnlyGraph ==
    <<Node("sample1", <<"Sample", "Name">>), Node("file1", <<"Raw", "Data", "File">>)>>

\* a process node that carries more than its name and arguments
LinkedProcesses ==
    <<[name |-> "process1", inputs |-> <<"source1">>, outputs |-> <<"sample1">>,
       study_assay |-> [type |-> "StudyAssay", metadata |-> AssayMetadata],
       parameters |-> <<"temperature">>, protocol |-> "extraction"]>>

OneStudyTree(study) ==
    RawTree(InvestigationMetadata,
            <<RawRecord(OntologyRefHeaders, "Term Source Name", "OBI")>>,
            <<>>, <<>>, <<study>>)

RawTrees ==
    \* every node graph
    {OneStudyTree(RawStudy(StudyMetadata, g, ps, <<>>, <<>>)) :
        g \in NodeGraphs, ps \in ExampleProcesses}
    \* every process sequence
    \cup {OneStudyTree(RawStudy(StudyMetadata, g, ps, <<>>, <<>>)) :
            g \in BaseGraphs, ps \in ProcessSeqs \cup ExampleProcesses}
    \* every list of studies
    \cup {RawTree(InvestigationMetadata, <<>>, <<>>, <<>>, ss) :
            ss \in SeqsUpTo(StudyVariants, MaxStudies)}
    \* no investigation metadata at all
    \cup {RawTree([h \in {} |-> ""], <<>>, <<>>, <<>>, <<s>>) : s \in StudyVariants}
    \* every investigation section
    \cup {RawTree(m, o, p, c,
                  <<RawStudy(StudyMetadata, ExampleGraph, <<>>, sp, <<>>)>>) :
            m \in OneMissing(InvestigationMetadata) \cup {[h \in {} |-> ""]},
            o \in OntologyRefLists,
            p \in PublicationLists("Investigation"),
            c \in ContactLists("Investigation"),
            sp \in PublicationLists("Study")}
    \* every protocol parameter list
    \cup {OneStudyTree([RawStudy(StudyMetadata, ExampleGraph, <<>>, <<>>, <<>>)
                           EXCEPT !.protocols = <<ProtocolRecord(n, t, a)>>]) :
            n \in RawStrings, t \in RawStrings, a \in RawStrings}
    \* assays with process nodes of their own
    \cup {OneStudyTree(RawStudy(StudyMetadata, ExampleGraph, ps, <<>>,
                                <<RawAssay(AssayMetadata, g, aps)>>)) :
            g \in BaseGraphs \cup {SampleOnlyGraph}, ps \in ExampleProcesses,
            aps \in ExampleProcesses \cup {LinkedProcesses}}

IdleDump ==
    /\ isa_obj = None
    /\ fp = <<>>

IdleMtbls ==
    /\ mtbls = None
    /\ ftp = None
    /\ tmp_dirs = {}

IdleValidate ==
    /\ validate_in = None
    /\ calls = <<>>
    /\ printed = <<>>

Idle ==
    /\ object_ = None
    /\ triples = [joined |-> FALSE]
    /\ onto_annotations = <<>>
    /\ link_in = None
    /\ json_list = <<>>
    /\ resolved = <<>>
    /\ IdleDump
    /\ IdleValidate
    /\ IdleMtbls

Init ==
    /\ pc = "load"
    /\ isa_tab \in RawTrees \cup {None}
    /\ heap = EmptyHeap
    /\ study_array = <<>>
    /\ dicts = None
    /\ investigation = None
    /\ returned = None
    /\ raised = ""
    /\ Idle

Next ==
    \/ LoadParseFailed
    \/ LoadNoMetadata
    \/ LoadInvestigationFields
    \/ LoadInvestigationFieldsRaise
    \/ CreateStudy
    \/ CreateStudyRaises
    \/ LoadReturn

Spec == Init /\ [][Next]_vars

(***************************************************************************)
(* The Annotation Assembler on its own.  Its one caller,                   *)
(* _createProtocolParameterList, passes a protocol record, "Study" and     *)
(* " Protocol Parameters Name"; the three fields of the record are either  *)
(* joined from a list of (name, source, accession) triples or any strings. *)
(***************************************************************************)
ParameterType == " Protocol Parameters Name"

\* the components of the triples: strings without a semicolon
Tokens == {<<>>, <<"a">>, <<"a", "b">>}

TripleLists ==
    SeqsUpTo([name : Tokens, term_source : Tokens, term_accession : Tokens], MaxAnn)

AnnotationRecord(names, sources, accessions) ==
    [h \in AnnotationHeaders("Study", ParameterType) |->
        IF h = "Study" \o ParameterType THEN names
        ELSE IF h = "Study" \o ParameterType \o " Term Source REF" THEN sources
        ELSE accessions]

\* the record whose three fields are the ';'-joined columns of the list
JoinedRecord(list) ==
    AnnotationRecord(Join([i \in 1..Len(list) |-> list[i].name]),
                     Join([i \in 1..Len(list) |-> list[i].term_source]),
                     Join([i \in 1..Len(list) |-> list[i].term_accession]))

InitAnn ==
    /\ pc = "annotate"
    /\ \/ \E list \in TripleLists :
             /\ triples = [joined |-> TRUE, list |-> list]
             /\ object_ = JoinedRecord(list)
       \/ \E n \in RawStrings, s \in RawStrings, a \in RawStrings :
             /\ triples = [joined |-> FALSE]
             /\ object_ = AnnotationRecord(n, s, a)
    /\ onto_annotations = <<>>
    /\ isa_tab = None
    /\ heap = EmptyHeap
    /\ IdleMtbls
    /\ study_array = <<>>
    /\ dicts = None
    /\ investigation = None
    /\ returned = None
    /\ raised = ""
    /\ link_in = None
    /\ json_list = <<>>
    /\ resolved = <<>>
    /\ IdleDump
    /\ IdleValidate

AnnUnchanged ==
    UNCHANGED <<isa_tab, study_array, dicts, investigation, returned,
                object_, triples, link_in, json_list, resolved, dumpVars, validateVars,
                heap, mtblsVars>>

\* lines 154-165 run to the return
AssembleAnnotations ==
    /\ pc = "annotate"
    /\ AnnotationsFromStringListError(object_, "Study", ParameterType) = ""
    /\ onto_annotations' =
           _createOntologyAnnotationsFromStringList(object_, "Study", ParameterType)
    /\ pc' = "returned"
    /\ UNCHANGED raised
    /\ AnnUnchanged

\* ... or to the subscript that raises
AssembleAnnotationsRaises ==
    /\ pc = "annotate"
    /\ AnnotationsFromStringListError(object_, "Study", ParameterType) # ""
    /\ raised' = AnnotationsFromStringListError(object_, "Study", ParameterType)
    /\ pc' = "raised"
    /\ UNCHANGED onto_annotations
    /\ AnnUnchanged

NextAnn == AssembleAnnotations \/ AssembleAnnotationsRaises

SpecAnn == InitAnn /\ [][NextAnn]_vars

(***************************************************************************)
(* The Process Sequence Linker on its own: _createProcessSequence applied  *)
(* to any process nodes and any two dictionaries, as its signature allows. *)
(***************************************************************************)
NodeNameOrder == <<"source1", "sample1", "file1">>

\* the dictionary holding the named nodes, tagged ntype
RECURSIVE DictionaryOver(_, _, _)
DictionaryOver(names, keys, ntype) ==
    IF names = <<>> THEN <<>>
    ELSE (IF Head(names) \in keys
          THEN <<[key |-> Head(names),
                  value |-> IF IsSampleTag(ntype)
                            THEN SampleItem(Node(Head(names), ntype))
                            ELSE SourceItem(Node(Head(names), ntype))]>>
          ELSE <<>>)
         \o DictionaryOver(Tail(names), keys, ntype)

\* what a process node's study_assay attribute can be: missing, None, or an
\* assay whose metadata holds any of the three headers the linker reads
LinkedAssayKeys ==
    {"Study Assay Measurement Type", "Study Assay Technology Platform",
     "Study Assay Technology Type"}

LinkedAssays ==
    {None} \cup {[type |-> "StudyAssay",
                  metadata |-> [h \in keys |->
                                   IF h = "Study Assay Measurement Type"
                                   THEN "metabolite profiling"
                                   ELSE IF h = "Study Assay Technology Platform"
                                        THEN "Bruker" ELSE "NMR spectroscopy"]] :
                 keys \in SUBSET LinkedAssayKeys}

\* process nodes from source1 to sample1, each with or without a study_assay
AssayProcesses ==
    {[name |-> "process1", inputs |-> <<"source1">>, outputs |-> <<"sample1">>]}
    \cup {[name |-> "process1", inputs |-> <<"source1">>, outputs |-> <<"sample1">>,
           study_assay |-> a] : a \in LinkedAssays}

AssayProcessSeqs ==
    {[i \in 1..Len(ps) |-> [ps[i] EXCEPT !.name = "process" \o Digit(i)]] :
        ps \in SeqsUpTo(AssayProcesses, MaxProcs)}

\* the arguments enumerated: any two dictionaries with any process sequence,
\* and the example's dictionaries with any study_assay attributes
LinkInputs ==
    (SUBSET NodeNames) \X (SUBSET NodeNames) \X ProcessSeqs
    \cup {<<{"source1"}, {"sample1"}, ps>> : ps \in AssayProcessSeqs}

InitLink ==
    /\ pc = "link"
    /\ \E in \in LinkInputs :
          LET sources == in[1]
              samples == in[2]
              ps == in[3]
          IN
          link_in = [process_nodes |-> ps,
                     source_dict |-> DictionaryOver(NodeNameOrder, sources, <<"Source", "Name">>),
                     sample_dict |-> DictionaryOver(NodeNameOrder, samples, <<"Sample", "Name">>),
                     data_dict |-> <<>>]
    /\ json_list = <<>>
    /\ isa_tab = None
    /\ heap = EmptyHeap
    /\ IdleMtbls
    /\ study_array = <<>>
    /\ dicts = None
    /\ investigation = None
    /\ returned = None
    /\ raised = ""
    /\ object_ = None
    /\ triples = [joined |-> FALSE]
    /\ onto_annotations = <<>>
    /\ resolved = <<>>
    /\ IdleDump
    /\ IdleValidate

\* lines 180-204
LinkProcessSequence ==
    /\ pc = "link"
    /\ json_list' = _createProcessSequence(link_in.process_nodes, link_in.source_dict,
                                           link_in.sample_dict, link_in.data_dict)
    /\ resolved' = [i \in 1..Len(link_in.process_nodes) |->
                        ProcessFields(link_in.process_nodes[i])]
    /\ pc' = "returned"
    /\ UNCHANGED <<isa_tab, study_array, dicts, investigation, returned, raised,
                   object_, triples, onto_annotations, link_in, dumpVars, validateVars,
                   heap, mtblsVars>>

NextLink == LinkProcessSequence

SpecLink == InitLink /\ [][NextLink]_vars

(***************************************************************************)
(* dump(isa_obj, fp), isatab.py 309-425.  A cell is the sequence of the    *)
(* pieces of its text (no piece holds a tab, a quote or a line break, so   *)
(* to_csv writes every cell unquoted); a line is the sequence of its       *)
(* tab-separated cells; fp is the sequence of the lines written.  A pandas *)
(* DataFrame is the sequence of its [index, row] entries in insertion      *)
(* order.                                                                  *)
(***************************************************************************)
MaxRefs == 2

MaxContacts == 2

MaxRoles == 2

\* the text of a str attribute as a cell: "" is the empty cell
Cell(v) == IF v = "" THEN <<>> ELSE <<v>>

\* fp.write('SECTION\n')
HeaderLine(text) == <<Cell(text)>>

\* df.loc[i] = row: replaces the row labelled i, or appends one
LocAssign(df, i, row) ==
    IF \E k \in 1..Len(df) : df[k].index = i
    THEN [k \in 1..Len(df) |->
             IF df[k].index = i THEN [index |-> i, row |-> row] ELSE df[k]]
    ELSE Append(df, [index |-> i, row |-> row])

\* i = 0; for ... : df.loc[i] = row; i += step
RECURSIVE LocLoop(_, _, _, _)
LocLoop(df, rows, i, step) ==
    IF rows = <<>> THEN df
    ELSE LocLoop(LocAssign(df, i, Head(rows)), Tail(rows), i + step, step)

\* df.set_index(columns[0]).T.to_csv(fp, sep='\t', index_label=index_label):
\* the first line is the index label and the first value of every row, then
\* one line per remaining column, its name and its value in every row
TransposedCsv(columns, df, index_label) ==
    [j \in 1..Len(columns) |->
        <<Cell(IF j = 1 THEN index_label ELSE columns[j])>>
        \o [k \in 1..Len(df) |-> df[k].row[j]]]

OntologySourceReferenceColumns ==
    <<"Term Source Name", "Term Source File", "Term Source Version",
      "Term Source Description">>

\* lines 315-334
OntologySourceReferenceSection(inv) ==
    LET rows == [k \in 1..Len(inv.ontology_source_references) |->
                    LET r == inv.ontology_source_references[k]
                    IN <<Cell(r.name), Cell(r.file), Cell(r.version), Cell(r.description)>>]
    IN <<HeaderLine("ONTOLOGY SOURCE REFERENCE")>>
       \o TransposedCsv(OntologySourceReferenceColumns, LocLoop(<<>>, rows, 0, 1),
                        "Term Source Name")

InvestigationColumns ==
    <<"Investigation Identifier", "Investigation Title", "Investigation Description",
      "Investigation Submission Date", "Investigation Public Release Date">>

\* lines 336-354
InvestigationSection(inv) ==
    LET row == <<Cell(inv.identifier), Cell(inv.title), Cell(inv.description),
                 Cell(inv.submission_date), Cell(inv.public_release_date)>>
    IN <<HeaderLine("INVESTIGATION")>>
       \o TransposedCsv(InvestigationColumns, LocAssign(<<>>, 0, row),
                        "Investigation Identifier")

InvestigationPublicationsColumns ==
    <<"Investigation PubMed ID", "Investigation Publication DOI",
      "Investigation Publication Author List", "Investigation Publication Status",
      "Investigation Publication Status Term Accession Number",
      "Investigation Publication Status Term Source REF">>

\* x.name: only an OntologySourceReference has the attribute
HasName(term_source) == term_source.type = "OntologySourceReference"

\* lines 366-376: the exception the loop over the publications raises
DumpPublicationsError(inv) ==
    IF \E k \in 1..Len(inv.publications) : ~HasName(inv.publications[k].status.term_source)
    THEN "AttributeError" ELSE ""

\* a slip: no section for an empty list
InvestigationPublicationsSection_OmittedWhenEmpty(inv) ==
    LET rows == [k \in 1..Len(inv.publications) |->
                    LET q == inv.publications[k]
                    IN <<Cell(q.pubmed_id), Cell(q.doi), Cell(q.author_list),
                         Cell(q.status.name), Cell(q.status.term_source.name),
                         Cell(q.status.term_accession)>>]
    IN IF rows = <<>> THEN <<>>
       ELSE <<HeaderLine("INVESTIGATION PUBLICATIONS")>>
            \o TransposedCsv(InvestigationPublicationsColumns, LocLoop(<<>>, rows, 0, 1),
                             "Investigation PubMed ID")

\* lines 356-380: the row holds the values in the order the code lists them
InvestigationPublicationsSection(inv) ==
    LET rows == [k \in 1..Len(inv.publications) |->
                    LET q == inv.publications[k]
                    IN <<Cell(q.pubmed_id), Cell(q.doi), Cell(q.author_list),
                         Cell(q.status.name), Cell(q.status.term_source.name),
                         Cell(q.status.term_accession)>>]
    IN <<HeaderLine("INVESTIGATION PUBLICATIONS")>>
       \o TransposedCsv(InvestigationPublicationsColumns, LocLoop(<<>>, rows, 0, 1),
                        "Investigation PubMed ID")

InvestigationContactsColumns ==
    <<"Investigation Person Last Name", "Investigation Person First Name",
      "Investigation Person Mid Initials", "Investigation Person Email",
      "Investigation Person Phone", "Investigation Person Fax",
      "Investigation Person Address", "Investigation Person Affiliation",
      "Investigation Person Roles", "Investigation Person Roles Term Accession Number",
      "Investigation Person Roles Term Source REF">>

\* lines 398-404: s = ''; for ... : s += cell + ';'
RECURSIVE RolesString(_)
RolesString(cells) ==
    IF cells = <<>> THEN <<>>
    ELSE Head(cells) \o <<";">> \o RolesString(Tail(cells))

\* lines 401-404: the exception the loop over the roles raises
DumpContactsError(inv) ==
    IF \E k \in 1..Len(inv.contacts) :
          \E r \in 1..Len(inv.contacts[k].roles) :
              ~HasName(inv.contacts[k].roles[r].term_source)
    THEN "AttributeError" ELSE ""

\* lines 382-421: i stays 0 in the loop, the index label is the publications'
InvestigationContactsSection(inv) ==
    LET rows == [k \in 1..Len(inv.contacts) |->
                    LET c == inv.contacts[k]
                        n == Len(c.roles)
                    IN <<Cell(c.last_name), Cell(c.first_name), Cell(c.mid_initials),
                         Cell(c.email), Cell(c.phone), Cell(c.fax), Cell(c.address),
                         Cell(c.affiliation),
                         RolesString([r \in 1..n |-> Cell(c.roles[r].name)]),
                         RolesString([r \in 1..n |-> Cell(c.roles[r].term_accession)]),
                         RolesString([r \in 1..n |-> Cell(c.roles[r].term_source.name)])>>]
    IN <<HeaderLine("INVESTIGATION CONTACTS")>>
       \o TransposedCsv(InvestigationContactsColumns, LocLoop(<<>>, rows, 0, 0),
                        "Investigation PubMed ID")

DumpUnchanged ==
    UNCHANGED <<isa_tab, study_array, dicts, investigation, object_, triples,
                onto_annotations, link_in, json_list, resolved, isa_obj, validateVars,
                heap, mtblsVars>>

\* a slip: an unsupported object is skipped
DumpUnsupported_ReturnsSilently ==
    /\ pc = "dump"
    /\ isa_obj.type # "Investigation"
    /\ returned' = [type |-> "file"]
    /\ pc' = "returned"
    /\ UNCHANGED <<raised, fp>>
    /\ DumpUnchanged

\* lines 311, 423-424: isa_obj is not an Investigation
DumpUnsupported ==
    /\ pc = "dump"
    /\ isa_obj.type # "Investigation"
    /\ raised' = "NotImplementedError"
    /\ pc' = "raised"
    /\ UNCHANGED <<returned, fp>>
    /\ DumpUnchanged

\* a slip: the sections are collected and written only when all are built
DumpPublicationsRaises_WritesNothing ==
    /\ pc = "dump"
    /\ isa_obj.type = "Investigation"
    /\ DumpPublicationsError(isa_obj) # ""
    /\ raised' = DumpPublicationsError(isa_obj)
    /\ pc' = "raised"
    /\ UNCHANGED <<returned, fp>>
    /\ DumpUnchanged

\* lines 311-376: a publication's status.term_source has no name
DumpPublicationsRaises ==
    /\ pc = "dump"
    /\ isa_obj.type = "Investigation"
    /\ DumpPublicationsError(isa_obj) # ""
    /\ fp' = fp \o OntologySourceReferenceSection(isa_obj) \o InvestigationSection(isa_obj)
    /\ raised' = DumpPublicationsError(isa_obj)
    /\ pc' = "raised"
    /\ UNCHANGED returned
    /\ DumpUnchanged

\* lines 311-404: a role's term_source has no name
DumpContactsRaises ==
    /\ pc = "dump"
    /\ isa_obj.type = "Investigation"
    /\ DumpPublicationsError(isa_obj) = ""
    /\ DumpContactsError(isa_obj) # ""
    /\ fp' = fp \o OntologySourceReferenceSection(isa_obj) \o InvestigationSection(isa_obj)
                \o InvestigationPublicationsSection(isa_obj)
    /\ raised' = DumpContactsError(isa_obj)
    /\ pc' = "raised"
    /\ UNCHANGED returned
    /\ DumpUnchanged

\* lines 311-425: the four sections, then return fp
DumpInvestigation ==
    /\ pc = "dump"
    /\ isa_obj.type = "Investigation"
    /\ DumpPublicationsError(isa_obj) = ""
    /\ DumpContactsError(isa_obj) = ""
    /\ fp' = fp \o OntologySourceReferenceSection(isa_obj) \o InvestigationSection(isa_obj)
                \o InvestigationPublicationsSection(isa_obj)
                \o InvestigationContactsSection(isa_obj)
    /\ returned' = [type |-> "file"]
    /\ pc' = "returned"
    /\ UNCHANGED raised
    /\ DumpUnchanged

(***************************************************************************)
(* The objects dump is run on: the Investigations load builds, the         *)
(* Investigations a caller builds from the model classes (any lists of     *)
(* references, publications and contacts, a term source being an           *)
(* OntologySourceReference, a str as load stores it, or None), and objects *)
(* of other classes.                                                       *)
(***************************************************************************)
SourceRef(name) ==
    [type |-> "OntologySourceReference", name |-> name, file |-> "", version |-> "",
     description |-> ""]

TermSources == {SourceRef("OBI"), [type |-> "str", value |-> "OBI"], None}

DumpRefLists ==
    {[k \in 1..n |-> SourceRef("ref" \o Digit(k))] : n \in 0..MaxRefs}

DumpPublication(k, term_source) ==
    [type |-> "Publication", pubmed_id |-> "pmid" \o Digit(k), doi |-> "doi" \o Digit(k),
     author_list |-> "", title |-> "title" \o Digit(k),
     status |-> [type |-> "OntologyAnnotation", name |-> "published",
                 term_source |-> term_source, term_accession |-> "acc" \o Digit(k)]]

DumpPublicationLists ==
    {[k \in 1..Len(ts) |-> DumpPublication(k, ts[k])] : ts \in SeqsUpTo(TermSources, MaxPubs)}

RoleLists ==
    {[r \in 1..Len(ts) |->
         [type |-> "OntologyAnnotation", name |-> "role" \o Digit(r),
          term_source |-> ts[r], term_accession |-> "acc" \o Digit(r)]] :
     ts \in SeqsUpTo({SourceRef("OBI"), None}, MaxRoles)}

DumpContact(k, roles) ==
    [type |-> "Contact", last_name |-> "last" \o Digit(k), first_name |-> "first" \o Digit(k),
     mid_initials |-> "", email |-> "", phone |-> "", fax |-> "", address |-> "",
     affiliation |-> "", roles |-> roles]

DumpContactLists ==
    {[k \in 1..Len(rs) |-> DumpContact(k, rs[k])] : rs \in SeqsUpTo(RoleLists, MaxContacts)}

DumpInvestigationOf(refs, publications, contacts) ==
    [type |-> "Investigation", identifier |-> "INV1", title |-> "", description |-> "",
     submission_date |-> "", public_release_date |-> "",
     ontology_source_references |-> refs, publications |-> publications,
     contacts |-> contacts, studies |-> <<>>]

DumpObjects ==
    \* what load returns
    {InvestigationOf(RawTree(InvestigationMetadata, o, <<>>, c, <<>>), <<>>) :
        o \in OntologyRefLists, c \in ContactLists("Investigation")}
    \* every list of references and of publications
    \cup {DumpInvestigationOf(o, q, <<>>) : o \in DumpRefLists, q \in DumpPublicationLists}
    \* every list of contacts
    \cup {DumpInvestigationOf(<<>>, <<>>, c) : c \in DumpContactLists}
    \* other classes
    \cup {[type |-> "Study", identifier |-> "s1"],
          [type |-> "Assay", file_name |-> "a_assay.txt"]}

InitDump ==
    /\ pc = "dump"
    /\ isa_obj \in DumpObjects
    /\ fp = <<>>
    /\ isa_tab = None
    /\ heap = EmptyHeap
    /\ IdleMtbls
    /\ study_array = <<>>
    /\ dicts = None
    /\ investigation = None
    /\ returned = None
    /\ raised = ""
    /\ object_ = None
    /\ triples = [joined |-> FALSE]
    /\ onto_annotations = <<>>
    /\ link_in = None
    /\ json_list = <<>>
    /\ resolved = <<>>
    /\ IdleValidate

NextDump ==
    \/ DumpUnsupported
    \/ DumpPublicationsRaises
    \/ DumpContactsRaises
    \/ DumpInvestigation

SpecDump == InitDump /\ [][NextDump]_vars

(***************************************************************************)
(* validate(isatab_dir, config_dir), isatab.py 7-26.  validate_in holds    *)
(* the two arguments and the set of paths os.path.exists answers True for; *)
(* calls is the list of the argument lists handed to subprocess.call, and  *)
(* printed the list of the argument lists handed to print.                 *)
(***************************************************************************)
MaxCode == 2

\* lines 16-17: the command line of the validator script
convert_command(isatab_dir, config_dir) ==
    "isatools/convert/isa_line_commands/bin/validate.sh -c " \o config_dir \o " " \o isatab_dir

\* lines 14-15
ValidatePrologue(isatab_dir, config_dir) ==
    <<<<"Using source ISA Tab folder: " \o isatab_dir>>,
      <<"ISA configuration XML folder: " \o config_dir>>>>

ValidateUnchanged ==
    UNCHANGED <<isa_tab, study_array, dicts, investigation, object_, triples,
                onto_annotations, link_in, json_list, resolved, dumpVars, validate_in,
                heap, mtblsVars>>

\* a slip: the validator is started before the path is tested
ValidateMissingPath_CallsFirst ==
    /\ pc = "validate"
    /\ validate_in.isatab_dir \notin validate_in.exists
    /\ calls' = Append(calls, <<convert_command(validate_in.isatab_dir,
                                                validate_in.config_dir)>>)
    /\ raised' = "IOError"
    /\ pc' = "raised"
    /\ UNCHANGED <<returned, printed>>
    /\ ValidateUnchanged

\* lines 12-13: isatab_dir does not exist
ValidateMissingPath ==
    /\ pc = "validate"
    /\ validate_in.isatab_dir \notin validate_in.exists
    /\ raised' = "IOError"
    /\ pc' = "raised"
    /\ UNCHANGED <<returned, calls, printed>>
    /\ ValidateUnchanged

\* lines 12-24: the validator runs and ends with a return code, negative
\* when a signal ended it
ValidateCall ==
    /\ pc = "validate"
    /\ validate_in.isatab_dir \in validate_in.exists
    /\ calls' = Append(calls, <<convert_command(validate_in.isatab_dir,
                                                validate_in.config_dir)>>)
    /\ \E return_code \in (0 - MaxCode)..MaxCode :
          printed' = printed
                     \o ValidatePrologue(validate_in.isatab_dir, validate_in.config_dir)
                     \o (IF return_code < 0
                         THEN <<<<"sys.stderr", "Terminated by signal", 0 - return_code>>>>
                         ELSE <<<<"sys.stderr", "Returned", return_code>>>>)
    /\ pc' = "returned"
    /\ UNCHANGED <<returned, raised>>
    /\ ValidateUnchanged

\* lines 12-26: subprocess.call raises OSError, which is caught
ValidateCallFails ==
    /\ pc = "validate"
    /\ validate_in.isatab_dir \in validate_in.exists
    /\ calls' = Append(calls, <<convert_command(validate_in.isatab_dir,
                                                validate_in.config_dir)>>)
    /\ printed' = printed
                  \o ValidatePrologue(validate_in.isatab_dir, validate_in.config_dir)
                  \o <<<<"sys.stderr", "Execution failed:", "OSError">>>>
    /\ pc' = "returned"
    /\ UNCHANGED <<returned, raised>>
    /\ ValidateUnchanged

\* the directories validate is called with, any of which may exist
IsatabDirs == {"./data/BII-I-1", "./data/MTBLS1", "./data/missing"}

ConfigDirs == {"./config/xml", "./config/missing"}

InitValidate ==
    /\ pc = "validate"
    /\ \E isatab_dir \in IsatabDirs, config_dir \in ConfigDirs,
          exists \in SUBSET (IsatabDirs \cup ConfigDirs) :
          validate_in = [isatab_dir |-> isatab_dir, config_dir |-> config_dir,
                         exists |-> exists]
    /\ calls = <<>>
    /\ printed = <<>>
    /\ isa_tab = None
    /\ heap = EmptyHeap
    /\ IdleMtbls
    /\ study_array = <<>>
    /\ dicts = None
    /\ investigation = None
    /\ returned = None
    /\ raised = ""
    /\ object_ = None
    /\ triples = [joined |-> FALSE]
    /\ onto_annotations = <<>>
    /\ link_in = None
    /\ json_list = <<>>
    /\ resolved = <<>>
    /\ IdleDump

NextValidate ==
    \/ ValidateMissingPath
    \/ ValidateCall
    \/ ValidateCallFails

SpecValidate == InitValidate /\ [][NextValidate]_vars

(***************************************************************************)
(* isatools.net.mtbls: get (mtbls.py 34-83) and its callers getj,          *)
(* get_data_files, get_factor_values and load (86-113, 215-251).  The FTP  *)
(* server, the file system and the converters are the environment: every   *)
(* call into them either succeeds or raises.  mtbls holds the caller, the  *)
(* locals of get (target_dir, response, the exception in flight) and the   *)
(* caller's tmp_dir; ftp counts the calls of ftp.close(); tmp_dirs is the  *)
(* set of directories made by tempfile.mkdtemp() that are still on disk.   *)
(* A path is the record [type |-> "str", value |-> ...].                   *)
(***************************************************************************)
Path(value) == [type |-> "str", value |-> value]

\* '230' in response, response being the sequence of its characters
Contains230(response) ==
    \E i \in 1..(Len(response) - 2) : SubSeq(response, i, i + 2) = <<"2", "3", "0">>

\* what ftp.login() can return: a reply of the 2xx class
LoginResponses ==
    {<<"2", "3", "0">>,
     <<"2", "3", "0", " ", "o", "k">>,
     <<"2", "0", "2">>,
     <<"2", "0", "2", " ", "2", "3", "0">>}

\* the exceptions a call into ftplib, tempfile or open can raise
RetrievalErrors == {"error_perm", "EOFError", "OSError"}

Callers == {"get", "getj", "get_data_files", "get_factor_values", "load"}

MtblsUnchanged ==
    UNCHANGED <<isa_tab, study_array, dicts, investigation, object_, triples,
                onto_annotations, link_in, json_list, resolved, dumpVars, validateVars,
                heap>>

\* line 48: ftp.login() raises (the server refuses the anonymous user)
GetLoginRaises ==
    /\ pc = "get:login"
    /\ raised' = "error_perm"
    /\ pc' = "raised"
    /\ UNCHANGED <<returned, mtbls, ftp, tmp_dirs>>
    /\ MtblsUnchanged

\* lines 48-49: ftp.login() returns a response that holds '230'
GetLogin ==
    /\ pc = "get:login"
    /\ \E response \in LoginResponses :
          /\ Contains230(response)
          /\ mtbls' = [mtbls EXCEPT !.response = response]
    /\ pc' = "get:cwd"
    /\ UNCHANGED <<returned, raised, ftp, tmp_dirs>>
    /\ MtblsUnchanged

\* a slip: the refused connection is left open
GetLoginRefused_LeavesOpen ==
    /\ pc = "get:login"
    /\ \E response \in LoginResponses :
          /\ ~Contains230(response)
          /\ mtbls' = [mtbls EXCEPT !.response = response]
    /\ raised' = "ConnectionError"
    /\ pc' = "raised"
    /\ UNCHANGED <<returned, ftp, tmp_dirs>>
    /\ MtblsUnchanged

\* lines 48-49, 81-83: a response without '230'
GetLoginRefused ==
    /\ pc = "get:login"
    /\ \E response \in LoginResponses :
          /\ ~Contains230(response)
          /\ mtbls' = [mtbls EXCEPT !.response = response]
    /\ ftp' = [connected |-> FALSE, closes |-> ftp.closes + 1]
    /\ raised' = "ConnectionError"
    /\ pc' = "raised"
    /\ UNCHANGED <<returned, tmp_dirs>>
    /\ MtblsUnchanged

\* an exception raised inside the try of lines 51-75: error_perm is caught
\* and logged at lines 76-77, any other is in flight when finally runs
Failed(at, error) ==
    [mtbls EXCEPT !.failed_at = at,
                  !.error = error,
                  !.pending = IF error = "error_perm" THEN "" ELSE error]

\* line 53: ftp.cwd
GetCwd ==
    /\ pc = "get:cwd"
    /\ pc' = "get:mkdtemp"
    /\ UNCHANGED <<returned, raised, mtbls, ftp, tmp_dirs>>
    /\ MtblsUnchanged

GetCwdFails ==
    /\ pc = "get:cwd"
    /\ \E error \in RetrievalErrors : mtbls' = Failed("cwd", error)
    /\ pc' = "get:finally"
    /\ UNCHANGED <<returned, raised, ftp, tmp_dirs>>
    /\ MtblsUnchanged

\* line 54 false: the caller's target_dir is used
GetUseTargetDir ==
    /\ pc = "get:mkdtemp"
    /\ mtbls.target_dir # None
    /\ pc' = "get:retrieve"
    /\ UNCHANGED <<returned, raised, mtbls, ftp, tmp_dirs>>
    /\ MtblsUnchanged

\* lines 54-55: tempfile.mkdtemp() makes a directory no other call has made
GetMkdtemp ==
    /\ pc = "get:mkdtemp"
    /\ mtbls.target_dir = None
    /\ LET made == Path("/tmp/tmp" \o Digit(Cardinality(tmp_dirs) + 1))
       IN /\ tmp_dirs' = tmp_dirs \cup {made}
          /\ mtbls' = [mtbls EXCEPT !.target_dir = made]
    /\ pc' = "get:retrieve"
    /\ UNCHANGED <<returned, raised, ftp>>
    /\ MtblsUnchanged

GetMkdtempFails ==
    /\ pc = "get:mkdtemp"
    /\ mtbls.target_dir = None
    /\ mtbls' = Failed("mkdtemp", "OSError")
    /\ pc' = "get:finally"
    /\ UNCHANGED <<returned, raised, ftp, tmp_dirs>>
    /\ MtblsUnchanged

\* lines 56-75: the investigation file, then the study and assay files
GetRetrieve ==
    /\ pc = "get:retrieve"
    /\ pc' = "get:finally"
    /\ UNCHANGED <<returned, raised, mtbls, ftp, tmp_dirs>>
    /\ MtblsUnchanged

GetRetrieveFails ==
    /\ pc = "get:retrieve"
    /\ \E error \in RetrievalErrors : mtbls' = Failed("retrieve", error)
    /\ pc' = "get:finally"
    /\ UNCHANGED <<returned, raised, ftp, tmp_dirs>>
    /\ MtblsUnchanged

\* a slip: finally closes and the exception in flight goes on to the caller
GetFinally_Propagates ==
    /\ pc = "get:finally"
    /\ ftp' = [connected |-> FALSE, closes |-> ftp.closes + 1]
    /\ IF mtbls.pending # ""
       THEN /\ raised' = mtbls.pending
            /\ pc' = "raised"
            /\ UNCHANGED <<returned, mtbls>>
       ELSE /\ mtbls' = [mtbls EXCEPT !.tmp_dir = mtbls.target_dir]
            /\ returned' = IF mtbls.caller = "get" THEN mtbls.target_dir ELSE returned
            /\ pc' = IF mtbls.caller = "get" THEN "returned" ELSE "caller"
            /\ UNCHANGED raised
    /\ UNCHANGED tmp_dirs
    /\ MtblsUnchanged

\* lines 78-80: ftp.close(), then return target_dir, which discards the
\* exception in flight; the value goes to the caller's tmp_dir
GetFinally ==
    /\ pc = "get:finally"
    /\ ftp' = [connected |-> FALSE, closes |-> ftp.closes + 1]
    /\ mtbls' = [mtbls EXCEPT !.pending = "", !.tmp_dir = mtbls.target_dir]
    /\ returned' = IF mtbls.caller = "get" THEN mtbls.target_dir ELSE returned
    /\ pc' = IF mtbls.caller = "get" THEN "returned" ELSE "caller"
    /\ UNCHANGED <<raised, tmp_dirs>>
    /\ MtblsUnchanged

\* lines 97-98, 108-109, 246-247: tmp_dir is None
CallerNoneRaises ==
    /\ pc = "caller"
    /\ mtbls.caller \in {"getj", "get_data_files", "load"}
    /\ mtbls.tmp_dir = None
    /\ raised' = "IOError"
    /\ pc' = "raised"
    /\ UNCHANGED <<returned, mtbls, ftp, tmp_dirs>>
    /\ MtblsUnchanged

\* line 228: get_factor_values has no such test, os.path.join(None, ...) raises
CallerJoinRaises ==
    /\ pc = "caller"
    /\ mtbls.caller = "get_factor_values"
    /\ mtbls.tmp_dir = None
    /\ raised' = "TypeError"
    /\ pc' = "raised"
    /\ UNCHANGED <<returned, mtbls, ftp, tmp_dirs>>
    /\ MtblsUnchanged

\* lines 99-101, 111, 228-239, 248-249: the conversion, the slicing, the
\* reading of the tables or isatab.load raises; the exception leaves the caller
CallerWorkRaises ==
    /\ pc = "caller"
    /\ mtbls.tmp_dir # None
    /\ raised' = "Exception"
    /\ pc' = "raised"
    /\ UNCHANGED <<returned, mtbls, ftp, tmp_dirs>>
    /\ MtblsUnchanged

\* lines 99-103, 111-113, 228-241, 248-251: the work is done, then
\* shutil.rmtree(tmp_dir) and return
CallerReturns ==
    /\ pc = "caller"
    /\ mtbls.tmp_dir # None
    /\ tmp_dirs' = tmp_dirs \ {mtbls.tmp_dir}
    /\ returned' = [type |-> "result", of |-> mtbls.caller]
    /\ pc' = "returned"
    /\ UNCHANGED <<raised, mtbls, ftp>>
    /\ MtblsUnchanged

\* a call of get with or without target_dir, or of one of its callers
\* (which pass no target_dir), once ftplib.FTP(EBI_FTP_SERVER) has connected
InitMtbls ==
    /\ pc = "get:login"
    /\ \E caller \in Callers, study \in {"MTBLS1", "MTBLS0"},
          target_dir \in {None, Path("/tmp/mtbls")} :
          /\ target_dir # None => caller = "get"
          /\ mtbls = [caller |-> caller, mtbls_study_id |-> study,
                      given |-> target_dir, target_dir |-> target_dir,
                      response |-> <<>>, failed_at |-> "", error |-> "",
                      pending |-> "",
                      tmp_dir |-> None]
    /\ ftp = [connected |-> TRUE, closes |-> 0]
    /\ tmp_dirs = {}
    /\ isa_tab = None
    /\ heap = EmptyHeap
    /\ study_array = <<>>
    /\ dicts = None
    /\ investigation = None
    /\ returned = None
    /\ raised = ""
    /\ object_ = None
    /\ triples = [joined |-> FALSE]
    /\ onto_annotations = <<>>
    /\ link_in = None
    /\ json_list = <<>>
    /\ resolved = <<>>
    /\ IdleDump
    /\ IdleValidate

NextMtbls ==
    \/ GetLoginRaises
    \/ GetLogin
    \/ GetLoginRefused
    \/ GetCwd
    \/ GetCwdFails
    \/ GetUseTargetDir
    \/ GetMkdtemp
    \/ GetMkdtempFails
    \/ GetRetrieve
    \/ GetRetrieveFails
    \/ GetFinally
    \/ CallerNoneRaises
    \/ CallerJoinRaises
    \/ CallerWorkRaises
    \/ CallerReturns

SpecMtbls == InitMtbls /\ [][NextMtbls]_vars

(***************************************************************************)
(* Properties.                                                             *)
(***************************************************************************)
Terminated == pc \in {"returned", "raised"}

\* the names of the entries of a list of entities
NamesOf(list) == [i \in 1..Len(list) |-> list[i].name]

\* the names of the nodes of a graph that carry the tag
Tagged(nodes, ntype) == {nodes[i].name : i \in {j \in 1..Len(nodes) : nodes[j].ntype = ntype}}

\* seq without the elements outside S
RECURSIVE Restrict(_, _)
Restrict(seq, S) ==
    IF seq = <<>> THEN <<>>
    ELSE (IF Head(seq) \in S THEN <<Head(seq)>> ELSE <<>>) \o Restrict(Tail(seq), S)

\* how many times x occurs in seq
Occurrences(seq, x) == Cardinality({i \in 1..Len(seq) : seq[i] = x})

\* every record of the tree carries the headers the builders read
WellFormed(tab) ==
    /\ InvestigationFieldsError(tab) = ""
    /\ \A k \in 1..Len(tab.studies) : StudyError(tab.studies[k]) = ""

\* the tree of the example: one study, source1 its only source node, sample1
\* its only sample node, one process node from source1 to sample1
ExampleTree(tab) ==
    /\ tab # None
    /\ DOMAIN tab.metadata # {}
    /\ WellFormed(tab)
    /\ Len(tab.studies) = 1
    /\ Tagged(tab.studies[1].nodes, <<"Source", "Name">>) = {"source1"}
    /\ Tagged(tab.studies[1].nodes, <<"Sample", "Name">>) = {"sample1"}
    /\ Len(tab.studies[1].process_nodes) = 1
    /\ tab.studies[1].process_nodes[1].inputs = <<"source1">>
    /\ tab.studies[1].process_nodes[1].outputs = <<"sample1">>

\* C1: load on the example tree (complete metadata, one study with a source
\* node source1 and a sample node sample1, one process node with inputs
\* [source1] and outputs [sample1]) returns an Investigation whose single
\* study has sources = [source1], samples = [sample1] and one Process whose
\* inputs are that source entry and whose outputs are that sample entry.
C1_ExampleAssembles ==
    (Terminated /\ ExampleTree(isa_tab)) =>
        /\ pc = "returned"
        /\ returned.type = "Investigation"
        /\ Len(returned.studies) = 1
        /\ LET study == returned.studies[1]
           IN /\ NamesOf(study.sources) = <<"source1">>
              /\ NamesOf(study.samples) = <<"sample1">>
              /\ "factors" \in DOMAIN study.samples[1]
              /\ "factors" \notin DOMAIN study.sources[1]
              /\ Len(study.process_sequence) = 1
              /\ study.process_sequence[1].inputs = study.sources
              /\ study.process_sequence[1].outputs = study.samples

C1_Witness ==
    /\ pc = "returned"
    /\ ExampleTree(isa_tab)
    /\ Len(isa_tab.studies[1].nodes) > 2

\* C2: for either scope, the publications list built by load holds exactly
\* one Publication per raw publication record of that scope, in the order of
\* the raw records.
C2_OnePublicationPerRecord ==
    (pc = "returned" /\ returned.type = "Investigation") =>
        /\ Len(returned.publications) = Len(isa_tab.publications)
        /\ \A i \in 1..Len(returned.publications) :
              returned.publications[i].pubmed_id =
                  isa_tab.publications[i]["Investigation PubMed ID"]
        /\ \A k \in 1..Len(returned.studies) :
              /\ Len(returned.studies[k].publications) =
                     Len(isa_tab.studies[k].publications)
              /\ \A i \in 1..Len(returned.studies[k].publications) :
                    returned.studies[k].publications[i].pubmed_id =
                        isa_tab.studies[k].publications[i]["Study PubMed ID"]

\* the annotation list as (name, source, accession) triples
AsTriples(annotations) ==
    [i \in 1..Len(annotations) |->
        [name |-> annotations[i].name,
         term_source |-> annotations[i].term_source,
         term_accession |-> annotations[i].term_accession]]

\* C3 (as stated): for every ordered list of triples without semicolons, the
\* empty list included, the Annotation Assembler applied to the three
\* ';'-joined columns returns the original list, same length, same order.
C3_RoundTripAnyList ==
    (Terminated /\ triples.joined) =>
        /\ pc = "returned"
        /\ AsTriples(onto_annotations) = triples.list

\* C3 (amended): the same for every non-empty list; the three columns of the
\* empty list are three empty strings, which read back as one annotation of
\* empty name, source and accession.
C3_RoundTripNonEmptyList ==
    (Terminated /\ triples.joined) =>
        /\ pc = "returned"
        /\ triples.list # <<>> => AsTriples(onto_annotations) = triples.list
        /\ triples.list = <<>> =>
              AsTriples(onto_annotations) =
                  <<[name |-> <<>>, term_source |-> <<>>, term_accession |-> <<>>]>>

C3_Witness ==
    /\ pc = "returned"
    /\ triples.joined
    /\ Len(triples.list) = 2
    /\ triples.list[1].name = <<>>
    /\ triples.list[2].term_source # triples.list[1].term_source
    /\ AsTriples(onto_annotations) = triples.list

\* the number of ';'-separated tokens of a field
TokenCount(s) == 1 + Cardinality({i \in 1..Len(s) : s[i] = ";"})

FieldTokenCounts ==
    {TokenCount(object_[h]) : h \in AnnotationHeaders("Study", ParameterType)}

\* C4: the Annotation Assembler fails whenever the name, term-source and
\* term-accession fields tokenize on ';' to different lengths, whether a
\* companion field has fewer tokens than the name field or more.
C4_FailsOnUnequalLengths ==
    (Terminated /\ Cardinality(FieldTokenCounts) > 1) => pc = "raised"

\* C5: the key sets of the source, sample and data dictionaries of a node
\* graph are pairwise disjoint, a node is in a dictionary exactly when its
\* tag is the dictionary's ('Source Name', 'Sample Name', ending in 'Data
\* File'), and a node whose tag matches none of the three is in none.
C5_ClassificationPartition ==
    dicts # None =>
        LET sources == Keys(dicts.source_dict)
            samples == Keys(dicts.sample_dict)
            data == Keys(dicts.data_dict)
        IN /\ sources \cap samples = {}
           /\ sources \cap data = {}
           /\ samples \cap data = {}
           /\ sources \cup samples \cup data \subseteq Range(NamesOf(dicts.nodes))
           /\ \A i \in 1..Len(dicts.nodes) :
                 LET node == dicts.nodes[i]
                     n == Len(node.ntype)
                 IN /\ node.name \in sources <=> node.ntype = <<"Source", "Name">>
                    /\ node.name \in samples <=> node.ntype = <<"Sample", "Name">>
                    /\ node.name \in data <=>
                          (n >= 2 /\ node.ntype[n - 1] = "Data" /\ node.ntype[n] = "File")

C5_Witness ==
    /\ dicts # None
    /\ Keys(dicts.source_dict) # {}
    /\ Keys(dicts.sample_dict) # {}
    /\ Keys(dicts.data_dict) # {}
    /\ \E i \in 1..Len(dicts.nodes) :
          dicts.nodes[i].name \notin
              Keys(dicts.source_dict) \cup Keys(dicts.sample_dict) \cup Keys(dicts.data_dict)

\* the names of a raw name list that the linker can resolve in the graph
Resolvable(names, nodes, tags) ==
    Restrict(names, UNION {Tagged(nodes, t) : t \in tags})

\* process_sequence is the linker's output for the raw process nodes over
\* the node graph: one Process per node, the i-th from the i-th
OneProcessPerNode(process_sequence, process_nodes, nodes) ==
    /\ Len(process_sequence) = Len(process_nodes)
    /\ \A i \in 1..Len(process_sequence) :
          /\ NamesOf(process_sequence[i].inputs) =
                 Resolvable(process_nodes[i].inputs, nodes,
                            {<<"Source", "Name">>, <<"Sample", "Name">>})
          /\ NamesOf(process_sequence[i].outputs) =
                 Resolvable(process_nodes[i].outputs, nodes, {<<"Sample", "Name">>})

\* C6: the linker emits exactly one Process per raw process node, in the
\* encounter order of the raw process nodes, whether or not any of the
\* node's input or output names resolve.
C6_OneProcessPerNodeInOrder ==
    \A k \in 1..Len(study_array) :
        /\ OneProcessPerNode(study_array[k].process_sequence,
                             isa_tab.studies[k].process_nodes, isa_tab.studies[k].nodes)
        /\ \A a \in 1..Len(study_array[k].assays) :
              OneProcessPerNode(study_array[k].assays[a].process_sequence,
                                isa_tab.studies[k].assays[a].process_nodes,
                                isa_tab.studies[k].assays[a].nodes)

C6_Witness ==
    /\ pc = "returned"
    /\ returned.type = "Investigation"
    /\ \E k \in 1..Len(returned.studies) :
          LET ps == returned.studies[k].process_sequence
          IN /\ Len(ps) >= 2
             /\ \E i \in 1..(Len(ps) - 1) :
                   /\ ps[i].inputs = <<>>
                   /\ ps[i].outputs = <<>>
                   /\ isa_tab.studies[k].process_nodes[i].inputs # <<>>
                   /\ ps[i + 1].inputs # <<>>

\* the names both dictionaries of the linker's arguments hold
Ambiguous == Keys(link_in.source_dict) \cap Keys(link_in.sample_dict)

\* C7: an input name that is a key of both the source and the sample
\* dictionary contributes two entries to the process's inputs, the source
\* entry immediately followed by the sample entry, once per occurrence of
\* the name: nothing is deduplicated.
C7_FanOutOnAmbiguousNames ==
    pc = "returned" =>
        \A p \in 1..Len(link_in.process_nodes) :
            \A name \in Ambiguous \cap Range(link_in.process_nodes[p].inputs) :
                LET inputs == json_list[p].inputs
                    fromSource == Lookup(link_in.source_dict, name)
                    fromSample == Lookup(link_in.sample_dict, name)
                    times == Occurrences(link_in.process_nodes[p].inputs, name)
                IN /\ Occurrences(inputs, fromSource) = times
                   /\ Occurrences(inputs, fromSample) = times
                   /\ \A j \in 1..Len(inputs) :
                         inputs[j] = fromSource =>
                             j < Len(inputs) /\ inputs[j + 1] = fromSample

C7_Witness ==
    /\ pc = "returned"
    /\ link_in # None
    /\ \E p \in 1..Len(link_in.process_nodes) :
          /\ Len(link_in.process_nodes[p].inputs) >= 2
          /\ Range(link_in.process_nodes[p].inputs) \subseteq Ambiguous
          /\ Len(json_list[p].inputs) = 2 * Len(link_in.process_nodes[p].inputs)

\* C8: a process's outputs are, in output-name order, exactly the sample
\* dictionary's entries of the output names that are sample nodes; an output
\* name that is a source node, a data node or no node at all is left out
\* and raises nothing.
C8_OutputsAreSamplesOnly ==
    /\ \A k \in 1..Len(study_array) :
          LET raw == isa_tab.studies[k]
              ps == study_array[k].process_sequence
          IN \A i \in 1..Len(ps) :
                /\ NamesOf(ps[i].outputs) =
                       Restrict(raw.process_nodes[i].outputs,
                                Tagged(raw.nodes, <<"Sample", "Name">>))
                /\ Range(ps[i].outputs) \subseteq Range(study_array[k].samples)
    /\ (Terminated /\ isa_tab # None /\ DOMAIN isa_tab.metadata # {} /\ WellFormed(isa_tab))
          => pc = "returned" /\ Len(returned.studies) = Len(isa_tab.studies)

C8_Witness ==
    /\ pc = "returned"
    /\ returned.type = "Investigation"
    /\ \E k \in 1..Len(returned.studies) :
          \E i \in 1..Len(returned.studies[k].process_sequence) :
             LET raw == isa_tab.studies[k]
                 names == Range(raw.process_nodes[i].outputs)
             IN /\ names \cap Tagged(raw.nodes, <<"Source", "Name">>) # {}
                /\ names \cap Keys(_createDataFiles(raw.nodes)) # {}
                /\ names \ Range(NamesOf(raw.nodes)) # {}
                /\ Len(returned.studies[k].process_sequence[i].outputs) = 1

\* a study of the tree lacks a header Study(...) reads from its metadata
SomeStudyLacksField(tab) ==
    /\ tab # None
    /\ \E k \in 1..Len(tab.studies) : ~(StudyKeys \subseteq DOMAIN tab.studies[k].metadata)

\* C9: if any study, at any position, of a raw tree lacks a required
\* metadata field, load never binds nor returns an Investigation, not even
\* one holding the studies built before the failing one; when the tree
\* carries investigation metadata, so that the studies are built at all,
\* load ends by raising.
C9_AtomicFailure ==
    SomeStudyLacksField(isa_tab) =>
        /\ investigation = None
        /\ returned = None
        /\ (Terminated /\ DOMAIN isa_tab.metadata # {}) => (pc = "raised" /\ raised # "")

C9_Witness ==
    /\ pc = "raised"
    /\ SomeStudyLacksField(isa_tab)
    /\ Len(isa_tab.studies) = 2
    /\ Len(study_array) = 1
    /\ returned = None

\* C10: when the tree is present and its investigation metadata is empty,
\* load returns None without raising and without building any study; it
\* returns an Investigation only when the metadata is non-empty.
C10_NoMetadataReturnsNone ==
    /\ (isa_tab # None /\ DOMAIN isa_tab.metadata = {}) =>
          /\ pc \in {"load", "returned"}
          /\ raised = ""
          /\ study_array = <<>>
          /\ dicts = None
          /\ returned = None
    /\ returned # None =>
          /\ returned.type = "Investigation"
          /\ DOMAIN isa_tab.metadata # {}

C10_Witness ==
    /\ pc = "returned"
    /\ isa_tab # None
    /\ DOMAIN isa_tab.metadata = {}
    /\ Len(isa_tab.studies) > 0
    /\ returned = None

\* C11: for a process node whose study_assay is absent (or None) or whose
\* assay metadata lacks any of measurement type, technology platform or
\* technology type, the linker still emits the Process record; each of the
\* three fields is the assay's value when the assay holds it and the empty
\* string otherwise, independently of the other two, and nothing is raised.
C11_FieldsDegradeIndependently ==
    (pc = "returned" /\ link_in # None) =>
        /\ raised = ""
        /\ Len(json_list) = Len(link_in.process_nodes)
        /\ Len(resolved) = Len(link_in.process_nodes)
        /\ \A i \in 1..Len(resolved) :
              LET node == link_in.process_nodes[i]
                  held == IF "study_assay" \in DOMAIN node /\ node.study_assay # None
                          THEN node.study_assay.metadata
                          ELSE [h \in {} |-> ""]
                  Field(h) == IF h \in DOMAIN held THEN held[h] ELSE ""
              IN /\ resolved[i].measurement_type = Field("Study Assay Measurement Type")
                 /\ resolved[i].platform = Field("Study Assay Technology Platform")
                 /\ resolved[i].technology = Field("Study Assay Technology Type")
                 /\ ("study_assay" \in DOMAIN node) =>
                        NamesOf(json_list[i].inputs) = <<"source1">>

C11_Witness ==
    /\ pc = "returned"
    /\ link_in # None
    /\ Len(json_list) = 2
    /\ "study_assay" \notin DOMAIN link_in.process_nodes[1]
    /\ resolved[1].measurement_type = ""
    /\ resolved[2].measurement_type = ""
    /\ resolved[2].platform = "Bruker"
    /\ resolved[2].technology = ""

\* the four sections in the order of the file, and where each starts in a
\* sink that holds all four
SectionNames ==
    <<"ONTOLOGY SOURCE REFERENCE", "INVESTIGATION", "INVESTIGATION PUBLICATIONS",
      "INVESTIGATION CONTACTS">>

SectionFields ==
    <<OntologySourceReferenceColumns, InvestigationColumns,
      InvestigationPublicationsColumns, InvestigationContactsColumns>>

RECURSIVE SectionStart(_)
SectionStart(n) ==
    IF n = 1 THEN 1 ELSE SectionStart(n - 1) + 1 + Len(SectionFields[n - 1])

\* line j of the table of section n
TableLine(n, j) == fp[SectionStart(n) + j]

FourSectionsWritten ==
    /\ Len(fp) = SectionStart(4) + Len(SectionFields[4])
    /\ \A n \in 1..4 :
          /\ fp[SectionStart(n)] = <<<<SectionNames[n]>>>>
          /\ \A j \in 2..Len(SectionFields[n]) :
                TableLine(n, j)[1] = <<SectionFields[n][j]>>
    /\ isa_obj.publications = <<>> =>
          \A j \in 1..Len(SectionFields[3]) : Len(TableLine(3, j)) = 1

DumpedInvestigation == pc # "dump" /\ isa_obj # None /\ isa_obj.type = "Investigation"

C13_UnsupportedWritesNothing ==
    (pc # "dump" /\ isa_obj # None /\ isa_obj.type # "Investigation") =>
        /\ pc = "raised"
        /\ raised = "NotImplementedError"
        /\ fp = <<>>

C13_Witness ==
    /\ pc = "raised"
    /\ isa_obj # None
    /\ isa_obj.type = "Study"
    /\ raised = "NotImplementedError"
    /\ fp = <<>>

\* C14: in every list-scoped section dump writes (ontology source
\* references, publications, contacts) the table has one data column per
\* entity of the list, in list order: n contacts give n columns.
C14_OneColumnPerEntity ==
    (DumpedInvestigation /\ pc = "returned") =>
        /\ Len(fp) = SectionStart(4) + Len(SectionFields[4])
        /\ \A j \in 1..Len(SectionFields[1]) :
              Len(TableLine(1, j)) = 1 + Len(isa_obj.ontology_source_references)
        /\ \A k \in 1..Len(isa_obj.ontology_source_references) :
              TableLine(1, 1)[k + 1] = Cell(isa_obj.ontology_source_references[k].name)
        /\ \A j \in 1..Len(SectionFields[3]) :
              Len(TableLine(3, j)) = 1 + Len(isa_obj.publications)
        /\ \A k \in 1..Len(isa_obj.publications) :
              TableLine(3, 1)[k + 1] = Cell(isa_obj.publications[k].pubmed_id)
        /\ \A j \in 1..Len(SectionFields[4]) :
              Len(TableLine(4, j)) = 1 + Len(isa_obj.contacts)
        /\ \A k \in 1..Len(isa_obj.contacts) :
              TableLine(4, 1)[k + 1] = Cell(isa_obj.contacts[k].last_name)

\* the three roles cells of the one contact column written: lines 9 to 11
\* of the contacts table
RolesCell(j) == TableLine(4, 8 + j)[2]

\* C15: for a contact, splitting each of the three roles strings dump
\* writes on ';' gives back the contact's roles (names, accession numbers,
\* source references), same count and order, no extra empty token.
C15_RolesStringsSplitBack ==
    (DumpedInvestigation /\ pc = "returned" /\ Len(isa_obj.contacts) = 1) =>
        LET roles == isa_obj.contacts[1].roles
        IN /\ Split(RolesCell(1)) = [r \in 1..Len(roles) |-> Cell(roles[r].name)]
           /\ Split(RolesCell(2)) = [r \in 1..Len(roles) |-> Cell(roles[r].term_accession)]
           /\ Split(RolesCell(3)) = [r \in 1..Len(roles) |-> Cell(roles[r].term_source.name)]

\* C16: the top-left cell of the table of each of the four sections is the
\* name of the section's first field.
C16_IndexLabelIsFirstField ==
    (DumpedInvestigation /\ pc = "returned") =>
        \A n \in 1..4 : TableLine(n, 1)[1] = <<SectionFields[n][1]>>

\* C18: when the source directory does not exist, validate raises IOError
\* before anything else: nothing is printed and the external validator is
\* never invoked.
C18_MissingPathRaisesBeforeCall ==
    (validate_in # None /\ pc # "validate"
        /\ validate_in.isatab_dir \notin validate_in.exists) =>
        /\ pc = "raised"
        /\ raised = "IOError"
        /\ calls = <<>>
        /\ printed = <<>>

C18_Witness ==
    /\ validate_in # None
    /\ pc = "raised"
    /\ raised = "IOError"
    /\ validate_in.isatab_dir = "./data/missing"
    /\ validate_in.config_dir \in validate_in.exists
    /\ calls = <<>>

\* the Protocol objects load returned, each with the raw record it was
\* built from
BuiltProtocols ==
    IF pc = "returned" /\ returned # None /\ returned.type = "Investigation"
    THEN UNION {{[raw |-> isa_tab.studies[i].protocols[j],
                  built |-> returned.studies[i].protocols[j]] :
                    j \in 1..Len(isa_tab.studies[i].protocols)} :
                i \in 1..Len(isa_tab.studies)}
    ELSE {}

\* C19 as stated: one ProtocolParameter per ';' token of 'Study Protocol
\* Parameters Name', in token order, whose name annotation carries the name
\* token and nothing of the term source and term accession fields.
C19_ParametersCarryNameOnly ==
    \A q \in BuiltProtocols :
        LET name_array == Split(q.raw["Study Protocol Parameters Name"])
        IN /\ Len(q.built.parameters) = Len(name_array)
           /\ \A k \in 1..Len(name_array) :
                 /\ q.built.parameters[k].name.name = name_array[k]
                 /\ q.built.parameters[k].name.term_source = <<>>
                 /\ q.built.parameters[k].name.term_accession = <<>>

\* C19: a Protocol that load returns holds one ProtocolParameter per ';'
\* token of 'Study Protocol Parameters Name', in token order; the name
\* annotation of the k-th parameter carries the k-th name token together
\* with the k-th token of the Term Source REF field and the k-th token of
\* the Term Accession Number field.
C19_ParametersCarryFullAnnotation ==
    \A q \in BuiltProtocols :
        LET name_array == Split(q.raw["Study Protocol Parameters Name"])
            term_source_array ==
                Split(q.raw["Study Protocol Parameters Name Term Source REF"])
            term_accession_array ==
                Split(q.raw["Study Protocol Parameters Name Term Accession Number"])
        IN /\ Len(q.built.parameters) = Len(name_array)
           /\ \A k \in 1..Len(name_array) :
                 /\ q.built.parameters[k].type = "ProtocolParameter"
                 /\ q.built.parameters[k].name.name = name_array[k]
                 /\ q.built.parameters[k].name.term_source = term_source_array[k]
                 /\ q.built.parameters[k].name.term_accession = term_accession_array[k]

C19_Witness ==
    \E q \in BuiltProtocols :
        /\ Len(q.built.parameters) = 2
        /\ q.built.parameters[1].name.name = <<"a">>
        /\ q.built.parameters[1].name.term_source = <<"a">>
        /\ q.built.parameters[2].name.term_source = <<>>
        /\ q.raw["Study Protocol Parameters Name Term Accession Number"] = <<";", ";">>

\* every Process record built so far, in the studies and in their assays
BuiltProcesses ==
    UNION {Range(study_array[i].process_sequence)
           \cup UNION {Range(study_array[i].assays[j].process_sequence) :
                         j \in 1..Len(study_array[i].assays)} :
           i \in 1..Len(study_array)}

\* C20: every Process record load produces, in every study and every assay,
\* has executesProtocol equal to the empty record and parameters equal to
\* the empty list, whatever the raw process node holds.
C20_ProcessesCarryNoProtocol ==
    \A process \in BuiltProcesses :
        /\ process.executesProtocol = <<>>
        /\ process.parameters = <<>>

C20_Witness ==
    /\ pc = "returned"
    /\ returned # None
    /\ Len(returned.studies) = 1
    /\ Len(returned.studies[1].process_sequence) = 3
    /\ Len(returned.studies[1].assays) = 1
    /\ Len(returned.studies[1].assays[1].process_sequence) = 1
    /\ "protocol" \in DOMAIN isa_tab.studies[1].assays[1].process_nodes[1]
    /\ BuiltProcesses # {}

\* the addresses in the inputs and outputs of the processes of a sequence
ProcessAddresses(process_sequence) ==
    UNION {Range(process_sequence[p].inputs) \cup Range(process_sequence[p].outputs) :
             p \in 1..Len(process_sequence)}

\* the entities behind a list of addresses
Dereferenced(addresses) == [k \in 1..Len(addresses) |-> heap.objects[addresses[k]]]

\* the address view of a node graph agrees with the value view built from it
SameGraph(refs, built) ==
    /\ Len(refs.process_sequence) = Len(built.process_sequence)
    /\ \A p \in 1..Len(refs.process_sequence) :
          /\ Dereferenced(refs.process_sequence[p].inputs) = built.process_sequence[p].inputs
          /\ Dereferenced(refs.process_sequence[p].outputs) = built.process_sequence[p].outputs

\* C21: within one study, every entry of every process's inputs and outputs
\* is the instance held under that name in the study's source or sample
\* dictionary, the one listed in study.sources or study.samples, and no
\* other; a sample that is an output of one process and an input of another
\* is one instance in both lists.
C21_ResolutionSharesInstances ==
    \A i \in 1..Len(heap.studies) :
        LET refs == heap.studies[i]
            raw == isa_tab.studies[i]
            listed == Range(refs.sources) \cup Range(refs.samples)
        IN /\ Dereferenced(refs.sources) = study_array[i].sources
           /\ Dereferenced(refs.samples) = study_array[i].samples
           /\ SameGraph(refs, study_array[i])
           /\ ProcessAddresses(refs.process_sequence) \subseteq listed
           /\ \A a, b \in listed : heap.objects[a].name = heap.objects[b].name => a = b
           /\ \A p, q \in 1..Len(refs.process_sequence) :
                 \A a \in Range(refs.process_sequence[p].outputs),
                    b \in Range(refs.process_sequence[q].inputs) :
                     (a \in Range(refs.samples) /\ b \in Range(refs.samples)
                        /\ heap.objects[a].name = heap.objects[b].name) => a = b

C21_Witness ==
    /\ pc = "returned"
    /\ Len(heap.studies) = 1
    /\ Len(heap.studies[1].process_sequence) = 2
    /\ heap.studies[1].samples # <<>>
    /\ \E a \in Range(heap.studies[1].samples) :
          /\ heap.objects[a].name = "sample1"
          /\ heap.studies[1].process_sequence[1].outputs = <<a>>
          /\ heap.studies[1].process_sequence[2].inputs = <<a>>

\* C22: the process sequence of an assay is resolved only against the
\* dictionaries built from the assay's own node graph: every entry of its
\* inputs and outputs is an instance of the assay's own sources and samples,
\* named by a node of the assay's graph, and none of these instances is an
\* instance of the owning study, a sample of the same name included.
C22_AssayScopedDictionaries ==
    \A i \in 1..Len(heap.studies) :
        \A j \in 1..Len(heap.studies[i].assays) :
            LET study == heap.studies[i]
                refs == study.assays[j]
                raw == isa_tab.studies[i].assays[j]
                own == Range(refs.sources) \cup Range(refs.samples)
            IN /\ SameGraph(refs, study_array[i].assays[j])
               /\ ProcessAddresses(refs.process_sequence) \subseteq own
               /\ own \cap (Range(study.sources) \cup Range(study.samples)) = {}
               /\ \A a \in ProcessAddresses(refs.process_sequence) :
                     heap.objects[a].name \in {raw.nodes[n].name : n \in 1..Len(raw.nodes)}

C22_Witness ==
    /\ pc = "returned"
    /\ Len(heap.studies) = 1
    /\ Len(heap.studies[1].assays) = 1
    /\ isa_tab.studies[1].assays[1].nodes = SampleOnlyGraph
    /\ isa_tab.studies[1].assays[1].process_nodes[1].inputs = <<"source1">>
    /\ heap.studies[1].sources # <<>>
    /\ heap.studies[1].assays[1].process_sequence[1].inputs = <<>>
    /\ \E a \in Range(heap.studies[1].samples),
          b \in Range(heap.studies[1].assays[1].samples) :
          /\ a # b
          /\ heap.objects[a] = heap.objects[b]
          /\ heap.studies[1].assays[1].process_sequence[1].outputs = <<b>>

\* the sections before section n are in the sink, in order, and nothing else
SectionsBefore(n) ==
    /\ Len(fp) = SectionStart(n) - 1
    /\ \A m \in 1..(n - 1) :
          /\ fp[SectionStart(m)] = <<<<SectionNames[m]>>>>
          /\ \A j \in 2..Len(SectionFields[m]) :
                TableLine(m, j)[1] = <<SectionFields[m][j]>>
    /\ \A l \in 1..Len(fp) : \A m \in n..4 : fp[l] # <<<<SectionNames[m]>>>>

\* C23: when dump raises while building a later section, the sections
\* written before the failure stay in the sink and no later section is
\* written: on a publication whose status has no usable term source the sink
\* holds ONTOLOGY SOURCE REFERENCE and INVESTIGATION and nothing after them,
\* on such a role of a contact it holds the first three sections.
C23_FailFastNotTransactional ==
    (DumpedInvestigation /\ pc = "raised") =>
        /\ raised = "AttributeError"
        /\ returned = None
        /\ IF \E k \in 1..Len(isa_obj.publications) :
                 isa_obj.publications[k].status.term_source.type # "OntologySourceReference"
           THEN SectionsBefore(3)
           ELSE SectionsBefore(4)

C23_Witness ==
    /\ DumpedInvestigation
    /\ pc = "raised"
    /\ Len(isa_obj.ontology_source_references) = 2
    /\ Len(isa_obj.publications) = 2
    /\ isa_obj.publications[1].status.term_source.type = "OntologySourceReference"
    /\ isa_obj.publications[2].status.term_source = None
    /\ fp[1] = <<<<"ONTOLOGY SOURCE REFERENCE">>>>
    /\ fp[Len(fp)] = <<<<"Investigation Public Release Date">>, <<>>>>

\* C24: in the INVESTIGATION PUBLICATIONS section every value sits in the
\* line of its own field name: for each publication the line 'Investigation
\* Publication Status Term Accession Number' holds status.term_accession and
\* the line 'Investigation Publication Status Term Source REF' holds the
\* name of status.term_source.
C24_PublicationValuesUnderOwnField ==
    (DumpedInvestigation /\ pc = "returned") =>
        \A k \in 1..Len(isa_obj.publications) :
            LET q == isa_obj.publications[k]
                Value(j) == TableLine(3, j)[k + 1]
            IN /\ \A j \in 1..6 : TableLine(3, j)[1] = <<InvestigationPublicationsColumns[j]>>
               /\ Value(1) = Cell(q.pubmed_id)
               /\ Value(2) = Cell(q.doi)
               /\ Value(3) = Cell(q.author_list)
               /\ Value(4) = Cell(q.status.name)
               /\ Value(5) = Cell(q.status.term_accession)
               /\ Value(6) = Cell(q.status.term_source.name)

\* the headers of an assay's metadata that the linker reads too
LinkerKeys ==
    {"Study Assay Measurement Type", "Study Assay Technology Type",
     "Study Assay Technology Platform"}

\* study i of the tree has an assay whose metadata lacks one of them
LacksLinkerKey(tab, i) ==
    \E j \in 1..Len(tab.studies[i].assays) :
        ~(LinkerKeys \subseteq DOMAIN tab.studies[i].assays[j].metadata)

\* C25: when an assay's metadata lacks 'Study Assay Measurement Type',
\* 'Study Assay Technology Type' or 'Study Assay Technology Platform', the
\* study that owns it is never built, so that no process sequence is linked
\* for the assay, and load, once it builds the studies at all (the tree
\* carries investigation metadata), ends by raising KeyError and returns
\* nothing.
C25_AssayMetadataKeyError ==
    /\ \A i \in 1..Len(study_array) : ~LacksLinkerKey(isa_tab, i)
    /\ (isa_tab # None /\ \E i \in 1..Len(isa_tab.studies) : LacksLinkerKey(isa_tab, i)) =>
          /\ returned = None
          /\ (Terminated /\ DOMAIN isa_tab.metadata # {}) =>
                (pc = "raised" /\ raised = "KeyError")

C25_Witness ==
    /\ pc = "raised"
    /\ raised = "KeyError"
    /\ Len(isa_tab.studies) = 2
    /\ Len(study_array) = 1
    /\ LacksLinkerKey(isa_tab, 2)
    /\ StudyKeys \subseteq DOMAIN isa_tab.studies[2].metadata
    /\ "Study Assay Measurement Type" \notin DOMAIN isa_tab.studies[2].assays[1].metadata
    /\ isa_tab.studies[2].assays[1].process_nodes # <<>>


\* get has run to its end: it returned to its caller or raised
GetExited == pc \in {"returned", "raised", "caller"}

\* C26: get closes the FTP connection exactly once on every exit path that
\* follows a login() response.  The connection is never closed twice; once
\* get has exited after a response, ftp.close() has been called exactly once;
\* a response without '230' ends in ConnectionError; after a response with
\* '230' the close is the one of the finally block, whatever happened in the
\* try (success, error_perm, any other exception).
C26_ClosesExactlyOnce ==
    mtbls # None =>
        /\ ftp.closes <= 1
        /\ pc \in {"get:cwd", "get:mkdtemp", "get:retrieve", "get:finally"} =>
              /\ ftp.closes = 0
              /\ ftp.connected
        /\ (GetExited /\ mtbls.response # <<>>) =>
              /\ ftp.closes = 1
              /\ ~ftp.connected
              /\ ~Contains230(mtbls.response) =>
                    /\ pc = "raised"
                    /\ raised = "ConnectionError"

C26_Witness ==
    /\ mtbls # None
    /\ pc = "raised"
    /\ raised = "ConnectionError"
    /\ mtbls.response = <<"2", "0", "2">>
    /\ ftp.closes = 1

\* what get handed to its caller
GetValue == IF mtbls.caller = "get" THEN returned ELSE mtbls.tmp_dir

FailedBeforeTempDir ==
    /\ mtbls.given = None
    /\ mtbls.failed_at \in {"cwd", "mkdtemp"}

\* C27: after a login response with '230', get never propagates an
\* exception: whatever was raised during retrieval, get returns target_dir.
\* The value is None exactly when no target_dir was given and the failure
\* came before tempfile.mkdtemp() had made the directory, and this is the
\* only case in which a caller raises IOError for tmp_dir being None.
C27_GetNeverPropagates ==
    (mtbls # None /\ Contains230(mtbls.response)) =>
        /\ pc = "raised" =>
              /\ mtbls.caller # "get"
              /\ raised \notin RetrievalErrors
        /\ GetExited =>
              /\ mtbls.pending = ""
              /\ (pc # "returned" \/ mtbls.caller = "get") =>
                    /\ (GetValue = None) <=> FailedBeforeTempDir
                    /\ GetValue # None =>
                          GetValue = IF mtbls.given = None
                                     THEN mtbls.target_dir ELSE mtbls.given
        /\ (pc = "raised" /\ raised = "IOError") => FailedBeforeTempDir
        /\ (pc = "caller" /\ FailedBeforeTempDir) => mtbls.tmp_dir = None

C27_Witness ==
    /\ mtbls # None
    /\ pc = "returned"
    /\ mtbls.caller = "get"
    /\ mtbls.given = None
    /\ mtbls.failed_at = "retrieve"
    /\ mtbls.error = "OSError"
    /\ returned \in tmp_dirs
    /\ raised = ""

\* C28: every temporary directory that getj, get_data_files,
\* get_factor_values or load obtained from get has been removed when the
\* function exits, by return or by exception.
C28_TempDirsRemovedOnExit ==
    (mtbls # None /\ mtbls.caller # "get" /\ pc \in {"returned", "raised"}) =>
        tmp_dirs = {}

====
